---- MODULE Spec2Model ----
(***************************************************************************)
(* Model of the bindings editor's data core: the bidirectional             *)
(* BindingsMap (bindings.rs), the Constants tree (constants.rs) and the    *)
(* event-sourced State with its profile documents (global_state.rs).       *)
(***************************************************************************)
EXTENDS Integers, Sequences, FiniteSets, TLC

VARIABLES
    state,     \* the State aggregate
    disk,      \* the deploy directory: profile marker, bindings.json, bindings/<name>.json
    toasts,    \* the error notices added during the latest tick
    last,      \* the latest tick: gesture, events, their flags, State and disk before it
    ticks,     \* UI ticks that carried events so far
    bm,        \* a BindingsMap driven directly through its own methods
    bmLast,    \* the last BindingsMap call: its arguments and the map before it
    tree,      \* a Constants tree driven directly through add_option / remove_key
    treeLast,  \* the last Constants call: its arguments, result and the tree before it
    fnLast,    \* the last call of a pure function: its arguments and what it returned
    thread,    \* the sync thread of sync_thread.rs: its locals, its channels, its children
    panicked,  \* TRUE once an unwrap()/panic! has aborted the process
    lock       \* the PasswordLock around the manage-commands tab

appVars == <<state, disk, toasts, last, ticks>>
bmVars == <<bm, bmLast>>
treeVars == <<tree, treeLast>>
fnVars == <<fnLast, thread>>
vars == <<state, disk, toasts, last, ticks, bm, bmLast, tree, treeLast, fnLast, thread,
          panicked, lock>>

\* no sync thread has been spawned
NoThread == [spawned |-> FALSE]

(***************************************************************************)
(* Bounds and input domains                                                *)
(***************************************************************************)
\* longest reverse-index list the direct BindingsMap calls may build
MaxBound == 2

\* UI ticks explored after a project has been opened
MaxTicks == 2

\* longest profile-name list AddProfile may build
MaxProfiles == 3

CommandNames == {"shoot", "fire"}

RunWhen == {"OnTrue", "OnFalse"}

Button3 == [button |-> 3, location |-> "Button"]
Button1 == [button |-> 1, location |-> "Button"]

\* Binding { controller, button, during }
Bindings ==
    { [controller |-> 0, button |-> Button3, during |-> "OnTrue"],
      [controller |-> 0, button |-> Button3, during |-> "OnFalse"],
      [controller |-> 0, button |-> Button1, during |-> "OnTrue"] }

(***************************************************************************)
(* BTreeMap and Vec helpers                                                *)
(***************************************************************************)
EmptyMap == [x \in {} |-> x]

MapGetOr(m, k, d) == IF k \in DOMAIN m THEN m[k] ELSE d

MapInsert(m, k, v) == [x \in (DOMAIN m) \cup {k} |-> IF x = k THEN v ELSE m[x]]

MapRemove(m, k) == [x \in (DOMAIN m) \ {k} |-> m[x]]

Contains(s, e) == \E i \in 1..Len(s) : s[i] = e

Range(s) == { s[i] : i \in 1..Len(s) }

(***************************************************************************)
(* BindingsMap                                                             *)
(***************************************************************************)
PButtonOf(b) == <<b.controller, b.button>>

BindingsMapDefault == [command_to_bindings |-> EmptyMap, binding_to_commands |-> EmptyMap]

\* a plausible slip: the duplicate test is dropped
add_binding_nocheck(m, command, binding) ==
    [ command_to_bindings |->
        MapInsert(m.command_to_bindings, command,
                  Append(MapGetOr(m.command_to_bindings, command, <<>>), binding)),
      binding_to_commands |->
        MapInsert(m.binding_to_commands, PButtonOf(binding),
                  Append(MapGetOr(m.binding_to_commands, PButtonOf(binding), <<>>),
                         <<command, binding.during>>)) ]

add_binding(m, command, binding) ==
    IF ~Contains(MapGetOr(m.command_to_bindings, command, <<>>), binding)
    THEN [ command_to_bindings |->
             MapInsert(m.command_to_bindings, command,
                       Append(MapGetOr(m.command_to_bindings, command, <<>>), binding)),
           binding_to_commands |->
             MapInsert(m.binding_to_commands, PButtonOf(binding),
                       Append(MapGetOr(m.binding_to_commands, PButtonOf(binding), <<>>),
                              <<command, binding.during>>)) ]
    ELSE m

remove_command(m, command) ==
    [ command_to_bindings |-> MapRemove(m.command_to_bindings, command),
      binding_to_commands |->
        [ k \in DOMAIN m.binding_to_commands |->
            SelectSeq(m.binding_to_commands[k], LAMBDA e : e[1] # command) ] ]

bindings_for_command(m, command) == MapGetOr(m.command_to_bindings, command, <<>>)

\* rename_binding unwraps the entry of `from` and the reverse entry of each binding
rename_binding_panics(m, from, to) ==
    \/ from \notin DOMAIN m.command_to_bindings
    \/ \E b \in Range(m.command_to_bindings[from]) :
          PButtonOf(b) \notin DOMAIN m.binding_to_commands

\* a plausible slip: the entry is copied to the new name and the old one kept
rename_binding_keep_old(m, from, to) ==
    LET bindings == m.command_to_bindings[from]
        keys == { PButtonOf(b) : b \in Range(bindings) }
    IN  [ command_to_bindings |-> MapInsert(m.command_to_bindings, to, bindings),
          binding_to_commands |->
            [ k \in DOMAIN m.binding_to_commands |->
                IF k \in keys
                THEN [ i \in 1..Len(m.binding_to_commands[k]) |->
                         IF m.binding_to_commands[k][i][1] = from
                         THEN <<to, m.binding_to_commands[k][i][2]>>
                         ELSE m.binding_to_commands[k][i] ]
                ELSE m.binding_to_commands[k] ] ]

rename_binding(m, from, to) ==
    LET bindings == m.command_to_bindings[from]
        keys == { PButtonOf(b) : b \in Range(bindings) }
    IN  [ command_to_bindings |->
            MapInsert(MapRemove(m.command_to_bindings, from), to, bindings),
          binding_to_commands |->
            [ k \in DOMAIN m.binding_to_commands |->
                IF k \in keys
                THEN [ i \in 1..Len(m.binding_to_commands[k]) |->
                         IF m.binding_to_commands[k][i][1] = from
                         THEN <<to, m.binding_to_commands[k][i][2]>>
                         ELSE m.binding_to_commands[k][i] ]
                ELSE m.binding_to_commands[k] ] ]

\* remove_binding unwraps the command's entry and the button's reverse entry
remove_binding_panics(m, command, binding) ==
    \/ command \notin DOMAIN m.command_to_bindings
    \/ PButtonOf(binding) \notin DOMAIN m.binding_to_commands

\* a plausible slip: only the forward index is pruned
remove_binding_forward_only(m, command, binding) ==
    [ m EXCEPT !.command_to_bindings[command] = SelectSeq(@, LAMBDA b : b # binding) ]

remove_binding(m, command, binding) ==
    [ command_to_bindings |->
        [ m.command_to_bindings EXCEPT ![command] = SelectSeq(@, LAMBDA b : b # binding) ],
      binding_to_commands |->
        [ m.binding_to_commands EXCEPT ![PButtonOf(binding)] =
            SelectSeq(@, LAMBDA e : ~(e[1] = command /\ e[2] = binding.during)) ] ]

bm_is_used(m, command) ==
    command \in DOMAIN m.command_to_bindings /\ m.command_to_bindings[command] # <<>>

has_button(m, button) == button \in DOMAIN m.binding_to_commands

has_binding(m, command, binding) ==
    command \in DOMAIN m.command_to_bindings /\ Contains(m.command_to_bindings[command], binding)

(***************************************************************************)
(* Constants: the recursive tagged union and its path-addressed edits      *)
(***************************************************************************)
NoneC == [tag |-> "None"]

IntC(v) == [tag |-> "Int", v |-> v]

DriverC(d) == [tag |-> "Driver", default |-> d]

ObjectC(map) == [tag |-> "Object", map |-> map]

\* OptionLocation: the key paths offered to add_option and remove_key
OptionLocations ==
    { <<>>, <<"a">>, <<"b">>, <<"a", "a">>, <<"a", "b">>, <<"b", "a">> }

\* the values an add dialog can hand to add_option
OptionValues == { NoneC, IntC(0), DriverC(IntC(0)), ObjectC(EmptyMap) }

RECURSIVE add_option_walk(_, _, _)
\* the loop of add_option from node `cloc` over the rest of the key, then the
\* final test; every step's insertion or promotion stays in the returned node
add_option_walk(cloc, key, value) ==
    IF key = <<>>
    THEN IF cloc # NoneC
         THEN [conflict |-> TRUE, node |-> cloc]
         ELSE [conflict |-> FALSE, node |-> value]
    ELSE LET l == Head(key) IN
         CASE cloc.tag = "Object" ->
                LET r == add_option_walk(MapGetOr(cloc.map, l, NoneC), Tail(key), value)
                IN  [conflict |-> r.conflict, node |-> ObjectC(MapInsert(cloc.map, l, r.node))]
           [] cloc.tag = "None" ->
                LET r == add_option_walk(NoneC, Tail(key), value)
                IN  [conflict |-> r.conflict, node |-> ObjectC(MapInsert(EmptyMap, l, r.node))]
           [] OTHER -> [conflict |-> TRUE, node |-> cloc]

RECURSIVE add_option_overwrite(_, _, _)
\* a plausible slip: the final `*cloc != Constants::None` test is missing
add_option_overwrite(cloc, key, value) ==
    IF key = <<>>
    THEN [conflict |-> FALSE, node |-> value]
    ELSE LET l == Head(key) IN
         CASE cloc.tag = "Object" ->
                LET r == add_option_overwrite(MapGetOr(cloc.map, l, NoneC), Tail(key), value)
                IN  [conflict |-> r.conflict, node |-> ObjectC(MapInsert(cloc.map, l, r.node))]
           [] cloc.tag = "None" ->
                LET r == add_option_overwrite(NoneC, Tail(key), value)
                IN  [conflict |-> r.conflict, node |-> ObjectC(MapInsert(EmptyMap, l, r.node))]
           [] OTHER -> [conflict |-> TRUE, node |-> cloc]

\* add_option(&mut self, key, value) -> bool: the returned flag and self afterwards
add_option(self, key, value) == add_option_walk(self, key, value)

RECURSIVE remove_key_panics(_, _)
\* remove_key panics on an empty key, on a non-Object node (get_object_mut) and
\* on a missing intermediate entry (unwrap)
remove_key_panics(self, key) ==
    IF self = NoneC THEN FALSE
    ELSE IF Len(key) = 0 THEN TRUE
    ELSE IF self.tag # "Object" THEN TRUE
    ELSE IF Len(key) = 1 THEN FALSE
    ELSE IF Head(key) \notin DOMAIN self.map THEN TRUE
    ELSE remove_key_panics(self.map[Head(key)], Tail(key))

\* a plausible slip: the recursion stops one level early and removes the
\* first segment's whole entry
remove_key_parent(self, key) ==
    IF self = NoneC THEN self
    ELSE ObjectC(MapRemove(self.map, Head(key)))

RECURSIVE remove_key(_, _)
\* remove_key(&mut self, key) where it returns normally: self afterwards
remove_key(self, key) ==
    IF self = NoneC THEN self
    ELSE IF Len(key) = 1 THEN ObjectC(MapRemove(self.map, Head(key)))
    ELSE ObjectC([self.map EXCEPT ![Head(key)] = remove_key(@, Tail(key))])

(***************************************************************************)
(* ConstantsType and the default value of a type                           *)
(***************************************************************************)
\* the ConstantsType variants that carry no type
BaseTypes == { "Object", "Float", "Int", "String", "Bool", "Distance", "Angle", "Null" }

\* deepest nesting of Driver(..) / List(..) in the type expressions explored
MaxTypeDepth == 3

RECURSIVE TypesUpTo(_)
\* every ConstantsType expression of at most n levels
TypesUpTo(n) ==
    IF n <= 1
    THEN { [t |-> name] : name \in BaseTypes }
    ELSE { [t |-> name] : name \in BaseTypes }
           \cup { [t |-> "Driver", of |-> of] : of \in TypesUpTo(n - 1) }
           \cup { [t |-> "List", of |-> of] : of \in TypesUpTo(n - 1) }

\* a never-panicking default_for_type
default_for_type_total(t) == FALSE

\* default_for_type reaches panic!("can't have Driver<Driver>")
default_for_type_panics(t) == t.t = "Driver" /\ t.of.t = "Driver"

RECURSIVE default_for_type(_)
\* Constants::default_for_type, where it returns
default_for_type(t) ==
    CASE t.t = "Object" -> ObjectC(EmptyMap)
      [] t.t = "Float" -> [tag |-> "Float", v |-> 0]
      [] t.t = "Int" -> IntC(0)
      [] t.t = "String" -> [tag |-> "String", v |-> ""]
      [] t.t = "Driver" -> DriverC(default_for_type(t.of))
      [] t.t = "Null" -> NoneC
      [] t.t = "List" -> [tag |-> "List", items |-> <<>>, t |-> t.of]
      [] t.t = "Bool" -> [tag |-> "Bool", v |-> FALSE]
      [] t.t = "Distance" -> [tag |-> "Meters", distance |-> 0]
      [] t.t = "Angle" -> [tag |-> "Degrees", degrees |-> 0]

(***************************************************************************)
(* Controllers, Profile and SaveData documents                             *)
(***************************************************************************)
ProfileNames == {"default", "comp"}

StreamNames == {"drive"}

\* BTreeMap iteration order of the command names
SortedCommands == <<"fire", "shoot">>

Slots == 0..4

NotBound == [type |-> "NotBound"]

Generic(buttons, axises) == [type |-> "Generic", buttons |-> buttons, axises |-> axises]

XBox == [type |-> "XBox"]

num_buttons(c) ==
    CASE c.type = "Generic" -> c.buttons
      [] c.type = "XBox" -> 10
      [] OTHER -> 0

\* a valid_binding that counts buttons from zero
valid_binding_zero_based(c, button) ==
    CASE button.location = "Button" -> 0 <= button.button /\ button.button < num_buttons(c)
      [] button.location = "Pov" ->
            c.type # "NotBound" /\ button.button \in {-1, 0, 45, 90, 135, 180, 225, 270}
      [] OTHER -> c.type = "XBox" /\ button.button \in {2, 3}

valid_binding(c, button) ==
    CASE button.location = "Button" -> 1 <= button.button /\ button.button <= num_buttons(c)
      [] button.location = "Pov" ->
            c.type # "NotBound" /\ button.button \in {-1, 0, 45, 90, 135, 180, 225, 270}
      [] OTHER -> c.type = "XBox" /\ button.button \in {2, 3}

ProfileDefault ==
    [ command_to_bindings |-> EmptyMap,
      stream_to_axis |-> EmptyMap,
      controllers |-> [i \in Slots |-> NotBound],
      controller_names |-> [i \in Slots |-> ""],
      constants |-> NoneC ]

RECURSIVE ToJson(_)
\* serde's untagged encoding of Constants
ToJson(c) ==
    CASE c.tag = "None" -> [j |-> "null"]
      [] c.tag = "Int" -> [j |-> "int", v |-> c.v]
      [] c.tag = "Driver" ->
            [j |-> "object", fields |-> [f \in {"default"} |-> ToJson(c.default)]]
      [] c.tag = "Object" ->
            [j |-> "object",
             fields |-> [f \in {"map"} |->
                           [j |-> "object",
                            fields |-> [k \in DOMAIN c.map |-> ToJson(c.map[k])]]]]

RECURSIVE FromJson(_)
\* serde's untagged decoding: the variants are tried in declaration order
FromJson(j) ==
    CASE j.j = "object" /\ "default" \in DOMAIN j.fields -> DriverC(FromJson(j.fields["default"]))
      [] j.j = "object" /\ "default" \notin DOMAIN j.fields /\ "map" \in DOMAIN j.fields ->
            ObjectC([k \in DOMAIN j.fields["map"].fields |-> FromJson(j.fields["map"].fields[k])])
      [] j.j = "int" -> IntC(j.v)
      [] OTHER -> NoneC

\* serde_json::to_string_pretty(&Profile)
ProfileToDoc(p) == [p EXCEPT !.constants = ToJson(p.constants)]

\* serde_json::from_str::<Profile>
ProfileFromDoc(d) == [d EXCEPT !.constants = FromJson(d.constants)]

SaveDataToDoc(sd) == [sd EXCEPT !.constants = ToJson(sd.constants)]

SaveDataFromDoc(d) == [d EXCEPT !.constants = FromJson(d.constants)]

RECURSIVE FlattenBindings(_, _)
\* the (command, binding) pairs in the iteration order of command_to_bindings
FlattenBindings(c2b, cmds) ==
    IF cmds = <<>> THEN <<>>
    ELSE LET c == Head(cmds)
             own == IF c \in DOMAIN c2b
                    THEN [i \in 1..Len(c2b[c]) |-> <<c, c2b[c][i]>>]
                    ELSE <<>>
         IN  own \o FlattenBindings(c2b, Tail(cmds))

\* a plausible slip: the reverse index is not rebuilt
BindingsMapFrom_forward_only(c2b) ==
    [command_to_bindings |-> c2b, binding_to_commands |-> EmptyMap]

\* impl From<BTreeMap<Rc<String>, Vec<Binding>>> for BindingsMap
BindingsMapFrom(c2b) ==
    LET flat == FlattenBindings(c2b, SortedCommands)
        keys == { PButtonOf(flat[i][2]) : i \in 1..Len(flat) }
        at(k) == SelectSeq(flat, LAMBDA p : PButtonOf(p[2]) = k)
    IN  [ command_to_bindings |-> c2b,
          binding_to_commands |->
            [k \in keys |-> [i \in 1..Len(at(k)) |-> <<at(k)[i][1], at(k)[i][2].during>>]] ]

(***************************************************************************)
(* The deploy directory                                                    *)
(***************************************************************************)
\* The world outside the process is one record: the profile marker, bindings.json,
\* the documents of bindings/, and `procs`, the scp children spawned so far, each
\* "running", "killed", "done" (exit status 0) or "failed".
\* a file of the deploy directory: absent, or present with its content
Absent == <<>>

File(content) == <<content>>

Content(file) == file[1]

MarkerFile == <<"profile">>

GlobalFile == <<"bindings.json">>

ProfileFile(name) == <<"bindings", name>>

\* File::create + write_all of bindings/<name>.json
WriteProfileDoc(d, name, profile) ==
    [d EXCEPT !.bindings_dir = MapInsert(@, name, ProfileToDoc(profile))]

\* Profile::get_from: a missing file is the default profile; `bad` holds the
\* files whose open/read/create fails during this tick (and <<"kill">>, <<"spawn">>
\* when that call on the scp child fails)
get_profile(d, name, bad) ==
    IF name \notin DOMAIN d.bindings_dir THEN [err |-> "", profile |-> ProfileDefault]
    ELSE IF ProfileFile(name) \in bad THEN [err |-> "io", profile |-> ProfileDefault]
    ELSE [err |-> "", profile |-> ProfileFromDoc(d.bindings_dir[name])]

(***************************************************************************)
(* State                                                                   *)
(***************************************************************************)
StateDefault ==
    [ commands |-> {},
      bindings |-> BindingsMapDefault,
      controllers |-> [i \in Slots |-> NotBound],
      controller_names |-> [i \in Slots |-> ""],
      profile |-> "default",
      profiles |-> <<>>,
      constants |-> NoneC,
      driver_constants |-> NoneC,
      stream_to_axis |-> EmptyMap,
      streams |-> {},
      url |-> <<>>,
      syncing |-> TRUE,
      sync_process |-> <<>> ]

to_profile_data(st) ==
    [ command_to_bindings |-> st.bindings.command_to_bindings,
      controllers |-> st.controllers,
      controller_names |-> st.controller_names,
      constants |-> st.driver_constants,
      stream_to_axis |-> st.stream_to_axis ]

to_savedata(st) ==
    [ url |-> st.url, commands |-> st.commands, constants |-> st.constants,
      streams |-> st.streams ]

set_fields_from_profile(st, profile) ==
    [ st EXCEPT !.bindings = BindingsMapFrom(profile.command_to_bindings),
                !.controller_names = profile.controller_names,
                !.controllers = profile.controllers,
                !.constants = profile.constants,
                !.stream_to_axis = profile.stream_to_axis ]

\* Child::kill on the held handle: SIGKILL ends a running child; a child that has
\* exited without being waited for is left as it is
kill_child(procs, handle) ==
    IF procs[handle[1]] = "running" THEN [procs EXCEPT ![handle[1]] = "killed"] ELSE procs

\* a write_out that spawns the replacement without killing the held child
start_sync_no_kill(st, d, bad) ==
    [state |-> [st EXCEPT !.sync_process = <<Len(d.procs) + 1>>],
     disk |-> [d EXCEPT !.procs = Append(@, "running")], err |-> ""]

\* a plausible slip: the sync is started whenever a url is set, the flag unread
start_sync_flag_unread(st, d, bad) ==
    IF st.url = <<>> THEN [state |-> st, disk |-> d, err |-> ""]
    ELSE [state |-> [st EXCEPT !.sync_process = <<Len(d.procs) + 1>>],
          disk |-> [d EXCEPT !.procs =
                        Append(IF st.sync_process = <<>> THEN @
                               ELSE kill_child(@, st.sync_process), "running")],
          err |-> ""]

\* the tail of write_out: with a url and syncing on, the held child is killed and
\* an scp child is spawned in its place; either call may fail
start_sync(st, d, bad) ==
    IF st.url = <<>> \/ ~st.syncing THEN [state |-> st, disk |-> d, err |-> ""]
    ELSE IF st.sync_process # <<>> /\ <<"kill">> \in bad
    THEN [state |-> st, disk |-> d, err |-> "kill"]
    ELSE LET d1 == IF st.sync_process = <<>> THEN d
                   ELSE [d EXCEPT !.procs = kill_child(@, st.sync_process)]
         IN  IF <<"spawn">> \in bad THEN [state |-> st, disk |-> d1, err |-> "spawn"]
             ELSE [state |-> [st EXCEPT !.sync_process = <<Len(d1.procs) + 1>>],
                   disk |-> [d1 EXCEPT !.procs = Append(@, "running")], err |-> ""]

\* a write_out that leaves the profile document as it was
write_out_global_only(st, d, bad) ==
    IF GlobalFile \in bad THEN [state |-> st, disk |-> d, err |-> "failed to create file to save to"]
    ELSE [state |-> st,
          disk |-> [d EXCEPT !.bindings_json = File(SaveDataToDoc(to_savedata(st)))],
          err |-> ""]

\* a plausible slip: the profile data is written to the document of every profile
write_out_every_profile(st, d, bad) ==
    start_sync(st,
               [d EXCEPT !.bindings_json = File(SaveDataToDoc(to_savedata(st))),
                         !.bindings_dir =
                             [n \in (DOMAIN @) \cup {st.profile} |->
                                 ProfileToDoc(to_profile_data(st))]],
               bad)

\* write_out: bindings.json, then bindings/<active>.json, then the sync; the first
\* failure returns with what has been done so far
write_out(st, d, bad) ==
    IF GlobalFile \in bad THEN [state |-> st, disk |-> d, err |-> "failed to create file to save to"]
    ELSE LET d1 == [d EXCEPT !.bindings_json = File(SaveDataToDoc(to_savedata(st)))] IN
         IF ProfileFile(st.profile) \in bad
         THEN [state |-> st, disk |-> d1, err |-> "failed to create file to savce to"]
         ELSE start_sync(st, WriteProfileDoc(d1, st.profile, to_profile_data(st)), bad)

\* a change_profile that drops its I/O errors
change_profile_silent(st, d, profile, bad) ==
    [state |-> [st EXCEPT !.profile = profile], disk |-> d, err |-> ""]

\* change_profile: the name is assigned first, then the marker file is
\* written, then the document is loaded
change_profile(st, d, profile, bad) ==
    LET st1 == [st EXCEPT !.profile = profile] IN
    IF MarkerFile \in bad
    THEN [state |-> st1, disk |-> d, err |-> "failed to create profile file"]
    ELSE LET d1 == [d EXCEPT !.profile = File(profile)]
             got == get_profile(d1, profile, bad)
         IN  IF got.err # ""
             THEN [state |-> st1, disk |-> d1, err |-> got.err]
             ELSE [state |-> set_fields_from_profile(st1, got.profile), disk |-> d1, err |-> ""]

\* the closures handed to map_profiles
RenameClosure(old, new) == [kind |-> "rename", old |-> old, new |-> new]

RemoveKeyClosure(key) == [kind |-> "remove_key", key |-> key]

ClosurePanics(f, profile) ==
    f.kind = "remove_key" /\ remove_key_panics(profile.constants, f.key)

ApplyClosure(f, profile) ==
    IF f.kind = "rename"
    THEN IF f.old \in DOMAIN profile.command_to_bindings
         THEN [profile EXCEPT !.command_to_bindings =
                  MapInsert(MapRemove(@, f.old), f.new, profile.command_to_bindings[f.old])]
         ELSE profile
    ELSE [profile EXCEPT !.constants = remove_key(@, f.key)]

RECURSIVE map_profiles_loop_keep_going(_, _, _, _, _)
\* a plausible slip: a document that cannot be read or rewritten is skipped, the
\* loop goes on with the next profile and the error is returned at the end
map_profiles_loop_keep_going(st, d, f, names, bad) ==
    IF names = <<>> THEN [disk |-> d, err |-> "", panic |-> FALSE]
    ELSE IF Head(names) = st.profile
    THEN map_profiles_loop_keep_going(st, d, f, Tail(names), bad)
    ELSE IF ProfileFile(Head(names)) \in bad
    THEN [map_profiles_loop_keep_going(st, d, f, Tail(names), bad)
            EXCEPT !.err = "failed to get profile"]
    ELSE IF ClosurePanics(f, get_profile(d, Head(names), bad).profile)
    THEN [disk |-> d, err |-> "", panic |-> TRUE]
    ELSE map_profiles_loop_keep_going(
             st, WriteProfileDoc(d, Head(names),
                                 ApplyClosure(f, get_profile(d, Head(names), bad).profile)),
             f, Tail(names), bad)

RECURSIVE map_profiles_loop(_, _, _, _, _)
\* the for loop of map_profiles over the profiles other than the active one
map_profiles_loop(st, d, f, names, bad) ==
    IF names = <<>> THEN [disk |-> d, err |-> "", panic |-> FALSE]
    ELSE IF Head(names) = st.profile THEN map_profiles_loop(st, d, f, Tail(names), bad)
    ELSE LET got == get_profile(d, Head(names), bad) IN
         IF got.err # "" THEN [disk |-> d, err |-> "failed to get profile", panic |-> FALSE]
         ELSE IF ClosurePanics(f, got.profile) THEN [disk |-> d, err |-> "", panic |-> TRUE]
         ELSE IF ProfileFile(Head(names)) \in bad
         THEN [disk |-> d, err |-> "failed to create file to savce to", panic |-> FALSE]
         ELSE map_profiles_loop(st,
                                WriteProfileDoc(d, Head(names), ApplyClosure(f, got.profile)),
                                f, Tail(names), bad)

\* a plausible slip: only the active profile is rewritten, the documents of
\* the other profiles are left as they are
map_profiles_active_only(st, d, f, bad) ==
    IF ClosurePanics(f, to_profile_data(st))
    THEN [state |-> st, disk |-> d, err |-> "", panic |-> TRUE]
    ELSE LET st1 == set_fields_from_profile(st, ApplyClosure(f, to_profile_data(st)))
             w == write_out(st1, d, bad)
         IN  [state |-> w.state, disk |-> w.disk, err |-> w.err, panic |-> FALSE]

map_profiles(st, d, f, bad) ==
    LET looped == map_profiles_loop(st, d, f, st.profiles, bad) IN
    IF looped.err # "" \/ looped.panic
    THEN [state |-> st, disk |-> looped.disk, err |-> looped.err, panic |-> looped.panic]
    ELSE IF ClosurePanics(f, to_profile_data(st))
    THEN [state |-> st, disk |-> looped.disk, err |-> "", panic |-> TRUE]
    ELSE LET st1 == set_fields_from_profile(st, ApplyClosure(f, to_profile_data(st)))
             w == write_out(st1, looped.disk, bad)
         IN  [state |-> w.state, disk |-> w.disk, err |-> w.err, panic |-> FALSE]

RECURSIVE is_used_loop(_, _, _, _, _)
\* the loop of State::is_used over enumerate_profiles: the other profiles'
\* documents in list order, then the active profile in memory
is_used_loop(st, d, command, names, bad) ==
    IF names = <<>>
    THEN [err |-> "", used |-> command \in DOMAIN st.bindings.command_to_bindings]
    ELSE IF Head(names) = st.profile THEN is_used_loop(st, d, command, Tail(names), bad)
    ELSE LET got == get_profile(d, Head(names), bad) IN
         IF got.err # "" THEN [err |-> got.err, used |-> FALSE]
         ELSE IF command \in DOMAIN got.profile.command_to_bindings
         THEN [err |-> "", used |-> TRUE]
         ELSE is_used_loop(st, d, command, Tail(names), bad)

state_is_used(st, d, command, bad) == is_used_loop(st, d, command, st.profiles, bad)

(***************************************************************************)
(* GlobalEvents and handle_event                                           *)
(***************************************************************************)
AddBinding(binding, command) == [type |-> "AddBinding", binding |-> binding, command |-> command]

RemoveBinding(binding, command) ==
    [type |-> "RemoveBinding", binding |-> binding, command |-> command]

AddCommand(command) == [type |-> "AddCommand", command |-> command]

RemoveCommand(command) == [type |-> "RemoveCommand", command |-> command]

DisplayError(error) == [type |-> "DisplayError", error |-> error]

Save == [type |-> "Save"]

RenameCommand(old, new) == [type |-> "RenameCommand", old |-> old, new |-> new]

AddProfile(profile) == [type |-> "AddProfile", profile |-> profile]

SetProfile(profile) == [type |-> "SetProfile", profile |-> profile]

AddOption(key, constant) == [type |-> "AddOption", key |-> key, constant |-> constant]

AddOptionDriver(key, constant) ==
    [type |-> "AddOptionDriver", key |-> key, constant |-> constant]

RemoveOption(key) == [type |-> "RemoveOption", key |-> key]

RemoveOptionDriver(key) == [type |-> "RemoveOptionDriver", key |-> key]

SetStream(stream, controller, axis) ==
    [type |-> "SetStream", stream |-> stream, controller |-> controller, axis |-> axis]

AddStream(stream) == [type |-> "AddStream", stream |-> stream]

RenameStream(from, to) == [type |-> "RenameStream", from |-> from, to |-> to]

RemoveStream(stream) == [type |-> "RemoveStream", stream |-> stream]

\* the result of applying one event
Handled(st, d, notices, ret, panic) ==
    [state |-> st, disk |-> d, toasts |-> notices, ret |-> ret, panic |-> panic]


handle_add_option(st, d, e, bad) ==
    LET r == add_option(st.constants, e.key, e.constant) IN
    IF r.conflict
    THEN Handled([st EXCEPT !.constants = r.node], d, <<"failed to add constants">>, FALSE, FALSE)
    ELSE Handled([st EXCEPT !.constants = r.node], d, <<>>, TRUE, FALSE)

\* a plausible slip: the override is added to the global tree
handle_add_option_driver_global(st, d, e, bad) ==
    handle_add_option(st, d, e, bad)

handle_add_option_driver(st, d, e, bad) ==
    LET r == add_option(st.driver_constants, e.key, e.constant) IN
    IF r.conflict
    THEN Handled([st EXCEPT !.driver_constants = r.node], d, <<"failed to add constant">>,
                 FALSE, FALSE)
    ELSE Handled([st EXCEPT !.driver_constants = r.node], d, <<>>, TRUE, FALSE)

handle_rename_command(st, d, e, bad) ==
    LET m == map_profiles(st, d, RenameClosure(e.old, e.new), bad)
        st1 == [m.state EXCEPT !.commands = (@ \ {e.old}) \cup {e.new}]
    IN  Handled(st1, m.disk, IF m.err # "" THEN <<m.err>> ELSE <<>>, TRUE, m.panic)

handle_remove_option(st, d, e, bad) ==
    IF remove_key_panics(st.constants, e.key) THEN Handled(st, d, <<>>, FALSE, TRUE)
    ELSE LET st1 == [st EXCEPT !.constants = remove_key(@, e.key)]
             m == map_profiles(st1, d, RemoveKeyClosure(e.key), bad)
         IN  Handled(m.state, m.disk, IF m.err # "" THEN <<m.err>> ELSE <<>>, TRUE, m.panic)

\* a plausible slip: a profile switch also raises the generic dirty flag
handle_set_profile_dirty(st, d, e, bad) ==
    LET c == change_profile(st, d, e.profile, bad) IN
    Handled(c.state, c.disk, IF c.err # "" THEN <<c.err>> ELSE <<>>, TRUE, FALSE)

handle_set_profile(st, d, e, bad) ==
    LET c == change_profile(st, d, e.profile, bad) IN
    Handled(c.state, c.disk, IF c.err # "" THEN <<c.err>> ELSE <<>>, FALSE, FALSE)

handle_event(st, d, e, bad) ==
    CASE e.type = "AddBinding" ->
            Handled([st EXCEPT !.bindings = add_binding(@, e.command, e.binding)],
                    d, <<>>, TRUE, FALSE)
      [] e.type = "RemoveBinding" ->
            IF remove_binding_panics(st.bindings, e.command, e.binding)
            THEN Handled(st, d, <<>>, FALSE, TRUE)
            ELSE Handled([st EXCEPT !.bindings = remove_binding(@, e.command, e.binding)],
                         d, <<>>, TRUE, FALSE)
      [] e.type = "AddCommand" ->
            Handled([st EXCEPT !.commands = @ \cup {e.command}], d, <<>>, TRUE, FALSE)
      [] e.type = "RemoveCommand" ->
            Handled([st EXCEPT !.commands = @ \ {e.command},
                               !.bindings = remove_command(@, e.command)],
                    d, <<>>, TRUE, FALSE)
      [] e.type = "DisplayError" -> Handled(st, d, <<e.error>>, FALSE, FALSE)
      [] e.type = "Save" -> Handled(st, d, <<>>, TRUE, FALSE)
      [] e.type = "RenameCommand" -> handle_rename_command(st, d, e, bad)
      [] e.type = "AddProfile" ->
            Handled([st EXCEPT !.profiles = Append(@, e.profile)], d, <<>>, FALSE, FALSE)
      [] e.type = "SetProfile" -> handle_set_profile(st, d, e, bad)
      [] e.type = "AddOption" -> handle_add_option(st, d, e, bad)
      [] e.type = "RemoveOption" -> handle_remove_option(st, d, e, bad)
      [] e.type = "RemoveOptionDriver" ->
            IF remove_key_panics(st.driver_constants, e.key)
            THEN Handled(st, d, <<>>, FALSE, TRUE)
            ELSE Handled([st EXCEPT !.driver_constants = remove_key(@, e.key)],
                         d, <<>>, TRUE, FALSE)
      [] e.type = "AddOptionDriver" -> handle_add_option_driver(st, d, e, bad)
      [] e.type = "SetStream" ->
            Handled([st EXCEPT !.stream_to_axis = MapInsert(@, e.stream, <<e.controller, e.axis>>)],
                    d, <<>>, TRUE, FALSE)
      [] e.type = "AddStream" ->
            Handled([st EXCEPT !.streams = @ \cup {e.stream}], d, <<>>, TRUE, FALSE)
      [] e.type = "RenameStream" ->
            Handled([st EXCEPT !.streams = (@ \ {e.from}) \cup {e.to},
                               !.stream_to_axis =
                                   IF e.from \in DOMAIN @
                                   THEN MapInsert(MapRemove(@, e.from), e.to, @[e.from])
                                   ELSE @],
                    d, <<>>, TRUE, FALSE)
      [] e.type = "RemoveStream" ->
            Handled([st EXCEPT !.streams = @ \ {e.stream}], d, <<>>, TRUE, FALSE)

RECURSIVE drain_events(_, _, _, _)
\* one event handled (h), then the rest of the queue (rest)
RECURSIVE drain_events_until_flag(_, _, _, _)
\* a plausible slip: the loop leaves at the first event that asks for the persist
drain_events_until_flag(st, d, events, bad) ==
    IF events = <<>>
    THEN [state |-> st, disk |-> d, toasts |-> <<>>, rets |-> <<>>, panic |-> FALSE]
    ELSE LET h == handle_event(st, d, Head(events), bad) IN
         IF h.panic \/ h.ret
         THEN [state |-> h.state, disk |-> h.disk, toasts |-> h.toasts,
               rets |-> <<h.ret>>, panic |-> h.panic]
         ELSE LET rest == drain_events_until_flag(h.state, h.disk, Tail(events), bad) IN
              [state |-> rest.state, disk |-> rest.disk, toasts |-> h.toasts \o rest.toasts,
               rets |-> <<h.ret>> \o rest.rets, panic |-> rest.panic]

drain_join(h, rest) ==
    [state |-> rest.state, disk |-> rest.disk, toasts |-> h.toasts \o rest.toasts,
     rets |-> <<h.ret>> \o rest.rets, panic |-> rest.panic]

\* a panic inside a handler unwinds out of the loop
drain_after(h, events, bad) ==
    IF h.panic
    THEN [state |-> h.state, disk |-> h.disk, toasts |-> h.toasts, rets |-> <<>>,
          panic |-> TRUE]
    ELSE drain_join(h, drain_events(h.state, h.disk, events, bad))

\* the for loop of display_tab: every drained event is handled in order and
\* its flag or-ed into `update`
drain_events(st, d, events, bad) ==
    IF events = <<>>
    THEN [state |-> st, disk |-> d, toasts |-> <<>>, rets |-> <<>>, panic |-> FALSE]
    ELSE drain_after(handle_event(st, d, Head(events), bad), Tail(events), bad)

\* the `if update` of display_tab: write_out, its error shown
display_update(dr, w) ==
    [state |-> w.state, disk |-> w.disk, toasts |-> dr.toasts, rets |-> dr.rets,
     panic |-> FALSE, err |-> w.err]

display_drained(dr, bad) ==
    IF dr.panic \/ ~(\E i \in 1..Len(dr.rets) : dr.rets[i])
    THEN [state |-> dr.state, disk |-> dr.disk, toasts |-> dr.toasts, rets |-> dr.rets,
          panic |-> dr.panic, err |-> ""]
    ELSE display_update(dr, write_out(dr.state, dr.disk, bad))

\* display_tab after the tab has rendered into `st` and emitted `events`
display_tab(st, d, events, bad) == display_drained(drain_events(st, d, events, bad), bad)

(***************************************************************************)
(* Opening a project                                                       *)
(***************************************************************************)
FreshDisk ==
    [profile |-> Absent, bindings_json |-> Absent, bindings_dir |-> EmptyMap, procs |-> <<>>]

\* Profile::get_profiles: the file stems of bindings/; read_dir gives them in
\* the file system's order, taken here to be the order of the names
get_profiles(d) ==
    LET both == <<"comp", "default">>
    IN  SelectSeq(both, LAMBDA n : n \in DOMAIN d.bindings_dir)

\* the deploy directory after from_directory: a missing marker file is created
from_directory_disk(d) ==
    IF d.profile = Absent THEN [d EXCEPT !.profile = File("default")] ELSE d

from_bindings(bindings, profile, profiles, profile_name) ==
    [ commands |-> bindings.commands,
      bindings |-> BindingsMapFrom(profile.command_to_bindings),
      controllers |-> profile.controllers,
      controller_names |-> profile.controller_names,
      profile |-> profile_name,
      profiles |-> profiles,
      constants |-> bindings.constants,
      driver_constants |-> profile.constants,
      stream_to_axis |-> profile.stream_to_axis,
      streams |-> bindings.streams,
      url |-> bindings.url,
      syncing |-> TRUE,
      sync_process |-> <<>> ]

\* a path of the deploy directory at which a directory stands
Dir == <<0, 0>>

\* the errors from_directory returns before it reads a document: the chosen
\* path is no directory, or a directory stands at profile or at bindings.json
from_directory_err(is_dir, d) ==
    IF ~is_dir THEN "NotDirectory"
    ELSE IF d.profile = Dir \/ d.bindings_json = Dir THEN "ExistingDirectoryAt"
    ELSE ""

\* a plausible slip: a project without bindings.json lists the documents of bindings/
from_directory_listed(d) ==
    LET profile_name == Content(from_directory_disk(d).profile) IN
    IF d.bindings_json = Absent
    THEN [StateDefault EXCEPT !.profile = profile_name, !.profiles = get_profiles(d)]
    ELSE from_bindings(SaveDataFromDoc(Content(d.bindings_json)),
                       get_profile(d, profile_name, {}).profile,
                       get_profiles(d), profile_name)

\* State::from_directory where it returns a State
from_directory(d) ==
    LET profile_name == Content(from_directory_disk(d).profile) IN
    IF d.bindings_json = Absent
    THEN [StateDefault EXCEPT !.profile = profile_name, !.profiles = <<profile_name>>]
    ELSE LET listed == get_profiles(d)
             profiles == IF Contains(listed, profile_name) THEN listed
                         ELSE Append(listed, profile_name)
         IN  from_bindings(SaveDataFromDoc(Content(d.bindings_json)),
                           get_profile(d, profile_name, {}).profile,
                           profiles, profile_name)

B3OnTrue == [controller |-> 0, button |-> Button3, during |-> "OnTrue"]

B3OnFalse == [controller |-> 0, button |-> Button3, during |-> "OnFalse"]

\* the schema of a stored project: one driver-overridable leaf and one plain one
StoredConstants == ObjectC([k \in {"a", "b"} |-> IF k = "a" THEN DriverC(IntC(0)) ELSE IntC(7)])

\* a project saved earlier: command "shoot", profiles default and comp, with
\* "shoot" bound or not in each; the marker names one of them, or a profile
\* "practice" that has no document yet
StoredProject(inDefault, inComp, active) ==
    [ profile |-> File(active),
      bindings_json |->
        File(SaveDataToDoc([url |-> <<>>, commands |-> {"shoot"},
                            constants |-> StoredConstants, streams |-> {"drive"}])),
      procs |-> <<>>,
      bindings_dir |->
        [ n \in ProfileNames |->
            IF n = "default"
            THEN ProfileToDoc(
                   [ command_to_bindings |->
                        IF inDefault THEN [c \in {"shoot"} |-> <<B3OnTrue>>] ELSE EmptyMap,
                     stream_to_axis |-> EmptyMap,
                     controllers |-> [i \in Slots |-> IF i = 0 THEN Generic(5, 2) ELSE NotBound],
                     controller_names |-> [i \in Slots |-> ""],
                     constants |-> NoneC ])
            ELSE ProfileToDoc(
                   [ command_to_bindings |->
                        IF inComp THEN [c \in {"shoot"} |-> <<B3OnFalse, B3OnTrue>>]
                        ELSE EmptyMap,
                     stream_to_axis |-> [x \in {"drive"} |-> <<0, 1>>],
                     controllers |-> [i \in Slots |-> IF i = 0 THEN XBox ELSE NotBound],
                     controller_names |-> [i \in Slots |-> IF i = 0 THEN "driver" ELSE ""],
                     constants |-> ObjectC([k \in {"a"} |-> IntC(1)]) ]) ] ]

InitDisks ==
    {FreshDisk} \cup
    { StoredProject(inDefault, inComp, active) :
        inDefault \in BOOLEAN, inComp \in BOOLEAN, active \in ProfileNames \cup {"practice"} }

NoTick == [gesture |-> "none", row |-> <<>>]

(***************************************************************************)
(* The tabs: what a gesture makes a tab emit                               *)
(***************************************************************************)
Front(key) == SubSeq(key, 1, Len(key) - 1)

RECURSIVE has_entry(_, _)
\* the rows a constants tab reaches: the entries of the nested Object maps
has_entry(node, key) ==
    /\ key # <<>>
    /\ node.tag = "Object"
    /\ Head(key) \in DOMAIN node.map
    /\ (Len(key) = 1 \/ has_entry(node.map[Head(key)], Tail(key)))

RECURSIVE entry_at(_, _)
entry_at(node, key) ==
    IF key = <<>> THEN node ELSE entry_at(node.map[Head(key)], Tail(key))

\* tabs/manage_commands.rs: the X button of a command row
manage_commands_remove(st, command) ==
    IF ~bm_is_used(st.bindings, command)
    THEN <<RemoveCommand(command)>>
    ELSE <<DisplayError("can't delete a command that is still used")>>

\* a rename field that does not look the new name up
manage_commands_rename_unchecked(st, command, rename) == <<RenameCommand(command, rename)>>

\* tabs/manage_commands.rs: the rename field of a command row losing focus
manage_commands_rename(st, command, rename) ==
    IF rename \in st.commands
    THEN <<DisplayError("command of that name already exists")>>
    ELSE <<RenameCommand(command, rename)>>

\* tabs/manage_streams.rs: the rename field of a stream row losing focus
manage_streams_rename(st, stream, rename) ==
    IF rename \in st.streams
    THEN <<DisplayError("stream of that name already exists")>>
    ELSE <<RenameStream(stream, rename)>>

RECURSIVE is_stream_used_loop(_, _, _, _, _)
is_stream_used_loop(st, d, stream, names, bad) ==
    IF names = <<>>
    THEN [err |-> "", used |-> stream \in DOMAIN st.stream_to_axis]
    ELSE IF Head(names) = st.profile THEN is_stream_used_loop(st, d, stream, Tail(names), bad)
    ELSE LET got == get_profile(d, Head(names), bad) IN
         IF got.err # "" THEN [err |-> got.err, used |-> FALSE]
         ELSE IF stream \in DOMAIN got.profile.stream_to_axis
         THEN [err |-> "", used |-> TRUE]
         ELSE is_stream_used_loop(st, d, stream, Tail(names), bad)

\* an is_stream_used that reads the active profile only
is_stream_used_active_only(st, d, stream, bad) ==
    [err |-> "", used |-> stream \in DOMAIN st.stream_to_axis]

is_stream_used(st, d, stream, bad) == is_stream_used_loop(st, d, stream, st.profiles, bad)

\* tabs/manage_streams.rs: the X button of a stream row
manage_streams_remove(st, d, stream, bad) ==
    LET u == is_stream_used(st, d, stream, bad) IN
    IF u.err # ""
    THEN <<DisplayError(u.err), DisplayError("can't delete a stream that is still used")>>
    ELSE IF ~u.used THEN <<RemoveStream(stream)>>
    ELSE <<DisplayError("can't delete a stream that is still used")>>

RECURSIVE driver_show_map(_, _, _)
\* tabs/driver_constants.rs: one level of the override tree as the tab
\* renders it. Every Object entry of the schema gets an Object entry in the
\* overrides; only the header named by Head(open) is expanded. `modified` is
\* raised by every visible Driver leaf without an override.
driver_show_map(gmap, dmap, open) ==
    LET objects == { k \in DOMAIN gmap : gmap[k].tag = "Object" }
        drivers == { k \in DOMAIN gmap : gmap[k].tag = "Driver" }
        made(k) == IF k \in DOMAIN dmap /\ dmap[k].tag = "Object" THEN dmap[k].map ELSE EmptyMap
        sub(k) == driver_show_map(gmap[k].map, made(k), Tail(open))
        opened(k) == open # <<>> /\ Head(open) = k
    IN  [ map |-> [ k \in (DOMAIN dmap) \cup objects |->
                      IF k \in objects
                      THEN IF opened(k) THEN ObjectC(sub(k).map) ELSE ObjectC(made(k))
                      ELSE dmap[k] ],
          modified |-> \/ \E k \in drivers : k \notin DOMAIN dmap
                       \/ \E k \in objects : opened(k) /\ sub(k).modified,
          panic |-> \/ \E k \in drivers : k \in DOMAIN dmap /\ dmap[k].tag = "Object"
                    \/ \E k \in objects : opened(k) /\ sub(k).panic ]

\* DriverConstantsTab::render on the whole tree
driver_render(global, driver, open) ==
    IF global.tag = "Object"
          /\ \E k \in DOMAIN global.map : global.map[k].tag \in {"Object", "Driver"}
    THEN LET r == driver_show_map(global.map,
                                  IF driver.tag = "Object" THEN driver.map ELSE EmptyMap, open)
         IN  [driver |-> ObjectC(r.map), modified |-> r.modified, panic |-> r.panic]
    ELSE [driver |-> driver, modified |-> FALSE, panic |-> FALSE]

(***************************************************************************)
(* The application: one action per tab gesture                             *)
(***************************************************************************)
\* tabs/password_lock.rs: the password the lock compares the typed text with
Password == "theyWillNeverKnow!"

\* PasswordLock::new: locked, nothing typed
PasswordLockNew == [locked |-> TRUE, password_typed |-> ""]

\* a plausible slip: the field losing focus unlocks, whatever was typed
password_lock_render_any_text(l, typed, lost_focus) ==
    IF lost_focus THEN [locked |-> FALSE, password_typed |-> ""]
    ELSE [l EXCEPT !.password_typed = typed]

\* PasswordLock::render while locked: the field now holds `typed`; when it has
\* lost focus holding the password, the text is cleared and the lock opens
password_lock_render(l, typed, lost_focus) ==
    IF lost_focus /\ typed = Password
    THEN [locked |-> FALSE, password_typed |-> ""]
    ELSE [l EXCEPT !.password_typed = typed]

Init ==
    /\ \E d \in InitDisks :
          /\ disk = from_directory_disk(d)
          /\ state = from_directory(d)
    /\ toasts = <<>>
    /\ last = NoTick
    /\ ticks = 0
    /\ bm = BindingsMapDefault
    /\ bmLast = [op |-> "none"]
    /\ tree = NoneC
    /\ treeLast = [op |-> "none"]
    /\ fnLast = [op |-> "none"]
    /\ thread = NoThread
    /\ panicked = FALSE
    /\ lock = PasswordLockNew

\* the application after one display_tab call that returned r
Ticked(row, gesture, rendered, events, bad, r) ==
    /\ state' = r.state
    /\ disk' = r.disk
    /\ toasts' = r.toasts
    /\ panicked' = r.panic
    /\ last' = [gesture |-> gesture, events |-> events, rets |-> r.rets, err |-> r.err,
                bad |-> bad, pre |-> state, rendered |-> rendered, preDisk |-> disk,
                row |-> row]
    /\ ticks' = ticks + 1
    /\ UNCHANGED <<bmVars, treeVars, fnVars>>

\* one display_tab call: `rendered` is State as the tab's render left it, `row` the
\* names of the table row the gesture was made on
Tick(row, gesture, rendered, events, bad) ==
    /\ ~panicked
    /\ ticks < MaxTicks
    /\ Ticked(row, gesture, rendered, events, bad,
              display_tab(rendered, disk, events, bad))
    /\ UNCHANGED lock

ManageCommandsAdd ==
    \E name \in CommandNames : Tick(<<>>, "add command", state, <<AddCommand(name)>>, {})

ManageCommandsRemove ==
    \E command \in state.commands :
        Tick(<<command>>, "remove command", state,
             manage_commands_remove(state, command), {})

ManageCommandsRename ==
    \E command \in state.commands, rename \in CommandNames,
       bad \in {{}} \cup {{ProfileFile(n)} : n \in ProfileNames} :
        Tick(<<command, rename>>, "rename command", state,
             manage_commands_rename(state, command, rename), bad)

FromCommandsAdd ==
    \E command \in state.commands, binding \in Bindings :
        /\ valid_binding(state.controllers[binding.controller], binding.button)
        /\ Tick(<<>>, "add binding", state, <<AddBinding(binding, command)>>, {})

FromCommandsRemove ==
    \E command \in state.commands :
        \E binding \in Range(bindings_for_command(state.bindings, command)) :
            Tick(<<>>, "remove binding", state, <<RemoveBinding(binding, command)>>, {})

ProfilesAdd ==
    \E name \in ProfileNames :
        /\ Len(state.profiles) < MaxProfiles
        /\ Tick(<<>>, "add profile", state, <<AddProfile(name)>>, {})

ProfilesSelect ==
    \E name \in Range(state.profiles) :
        \E bad \in {{}, {MarkerFile}, {ProfileFile(name)}} :
            Tick(<<>>, "set profile", state, <<SetProfile(name)>>, bad)

\* tabs/constants.rs add_dialog: shown at the root and inside every Object
ConstantsAdd ==
    \E key \in OptionLocations \ {<<>>}, value \in OptionValues :
        /\ \/ Len(key) = 1
           \/ has_entry(state.constants, Front(key))
                 /\ entry_at(state.constants, Front(key)).tag = "Object"
        /\ Tick(<<>>, "add option", state, <<AddOption(key, value)>>, {})

\* tabs/constants.rs: the X of a value row, or of an empty Object's header
ConstantsRemove ==
    \E key \in OptionLocations \ {<<>>},
       bad \in {{}} \cup {{ProfileFile(n)} : n \in ProfileNames} :
        /\ has_entry(state.constants, key)
        /\ entry_at(state.constants, key).tag = "Object"
              => entry_at(state.constants, key).map = EmptyMap
        /\ Tick(<<>>, "remove option", state, <<RemoveOption(key)>>, bad)

\* tabs/driver_constants.rs show_value: "change value" on a Driver leaf the
\* profile has not overridden, "reset" on one it has
\* (a render that panics ends the process before any button is offered)
DriverConstantsChange ==
    \E key \in OptionLocations \ {<<>>} :
        /\ has_entry(state.constants, key)
        /\ entry_at(state.constants, key).tag = "Driver"
        /\ LET r == driver_render(state.constants, state.driver_constants, Front(key))
               rendered == [state EXCEPT !.driver_constants = r.driver]
           IN  /\ ~r.panic
               /\ ~has_entry(r.driver, key)
               /\ Tick(<<>>, "change value", rendered,
                       <<AddOptionDriver(key, entry_at(state.constants, key).default)>>
                           \o (IF r.modified THEN <<Save>> ELSE <<>>),
                       {})

DriverConstantsReset ==
    \E key \in OptionLocations \ {<<>>} :
        /\ has_entry(state.constants, key)
        /\ entry_at(state.constants, key).tag = "Driver"
        /\ LET r == driver_render(state.constants, state.driver_constants, Front(key))
               rendered == [state EXCEPT !.driver_constants = r.driver]
           IN  /\ ~r.panic
               /\ has_entry(r.driver, key)
               /\ Tick(<<>>, "reset", rendered,
                       <<RemoveOptionDriver(key)>> \o (IF r.modified THEN <<Save>> ELSE <<>>),
                       {})

\* streams tab: the "change" button of a stream row
StreamsChange ==
    \E stream \in state.streams, axis \in {0, 1} :
        Tick(<<>>, "set stream", state, <<SetStream(stream, 0, axis)>>, {})

ManageStreamsAdd ==
    \E name \in StreamNames \cup {"aux"} :
        Tick(<<>>, "add stream", state, <<AddStream(name)>>, {})

ManageStreamsRename ==
    \E stream \in state.streams, rename \in StreamNames \cup {"aux"} :
        Tick(<<stream, rename>>, "rename stream", state,
             manage_streams_rename(state, stream, rename), {})

ManageStreamsRemove ==
    \E stream \in state.streams, bad \in {{}} \cup {{ProfileFile(n)} : n \in ProfileNames} :
        Tick(<<stream>>, "remove stream", state,
             manage_streams_remove(state, disk, stream, bad), bad)

\* tabs/manage_controllers.rs: the slot is edited in place and Save emitted
ManageControllersEdit ==
    \E c \in {NotBound, XBox, Generic(0, 0), Generic(5, 2)},
       bad \in {{}, {GlobalFile}, {ProfileFile(state.profile)}} :
        /\ c # state.controllers[0]
        /\ \/ state.controllers[0].type = "NotBound" /\ c \in {XBox, Generic(0, 0)}
           \/ state.controllers[0].type = "Generic" /\ c.type \in {"Generic", "NotBound"}
           \/ state.controllers[0].type = "XBox" /\ c.type = "NotBound"
        /\ Tick(<<>>, "edit controller", [state EXCEPT !.controllers[0] = c], <<Save>>, bad)

Next ==
    \/ ManageCommandsAdd
    \/ ManageCommandsRemove
    \/ ManageCommandsRename
    \/ FromCommandsAdd
    \/ FromCommandsRemove
    \/ ProfilesAdd
    \/ ProfilesSelect
    \/ ConstantsAdd
    \/ ConstantsRemove
    \/ DriverConstantsChange
    \/ DriverConstantsReset
    \/ StreamsChange
    \/ ManageStreamsAdd
    \/ ManageStreamsRename
    \/ ManageStreamsRemove
    \/ ManageControllersEdit

Spec == Init /\ [][Next]_vars

(***************************************************************************)
(* The opened project driven by events, whatever tab emitted them          *)
(***************************************************************************)
\* the queues display_tab drains in the event runs: every single GlobalEvents
\* value over the small names, and the pairs of a few of them
EventQueues ==
    LET singles ==
            { AddBinding(b, c) : b \in Bindings, c \in CommandNames }
            \cup { RemoveBinding(b, c) : b \in Bindings, c \in CommandNames }
            \cup { AddCommand(c) : c \in CommandNames }
            \cup { RemoveCommand(c) : c \in CommandNames }
            \cup { RenameCommand(c[1], c[2]) : c \in CommandNames \X CommandNames }
            \cup { SetProfile(n) : n \in ProfileNames }
            \cup { AddProfile("comp"), Save, DisplayError("error"),
                   AddStream("aux"), RemoveStream("drive"),
                   RenameStream("drive", "aux"), RenameStream("aux", "drive"),
                   SetStream("drive", 0, 0), SetStream("aux", 0, 1),
                   AddOptionDriver(<<"a">>, IntC(0)), RemoveOptionDriver(<<"a">>) }
        paired ==
            { DisplayError("error"), AddProfile("comp"), Save, AddCommand("fire"),
              AddBinding(B3OnTrue, "fire"), SetProfile("comp") }
    IN  { <<e>> : e \in singles } \cup { <<e[1], e[2]>> : e \in paired \X paired }

\* one display_tab call draining the queue `events`
HandleEvents(events) == Tick(<<>>, "events", state, events, {})

NextEvents == \E events \in EventQueues : HandleEvents(events)

SpecEvents == Init /\ [][NextEvents]_vars

(***************************************************************************)
(* The password lock around the manage-commands tab                        *)
(***************************************************************************)
MaxLockTicks == 4

\* one display_tab call of the locked tab: the lock's render leaves `l`
LockTick(row, gesture, events, l) ==
    /\ ~panicked
    /\ ticks < MaxLockTicks
    /\ lock' = l
    /\ Ticked(row, gesture, state, events, {}, display_tab(state, disk, events, {}))

\* PasswordLock::render, locked: only the password field is shown; the text is
\* edited, and the field keeps or loses focus
LockPassword ==
    /\ lock.locked
    /\ \E typed \in {lock.password_typed, "", "guess", Password}, lost_focus \in BOOLEAN :
          LockTick(<<typed>>, IF lost_focus THEN "password lost focus" ELSE "password typed",
                   <<>>, password_lock_render(lock, typed, lost_focus))

\* PasswordLock::render, unlocked, "lock" not pressed: the wrapped tab renders
\* and one of its gestures is made
LockWrappedTab ==
    /\ ~lock.locked
    /\ \/ \E name \in CommandNames :
             LockTick(<<>>, "add command", <<AddCommand(name)>>, lock)
       \/ \E command \in state.commands :
             LockTick(<<command>>, "remove command",
                      manage_commands_remove(state, command), lock)
       \/ \E command \in state.commands, rename \in CommandNames :
             LockTick(<<command, rename>>, "rename command",
                      manage_commands_rename(state, command, rename), lock)

\* PasswordLock::render, unlocked, "lock" pressed: locked is set and the wrapped
\* tab still renders in this pass; the click takes the focus from a rename field
\* that had it, which emits that row's rename
LockPress ==
    /\ ~lock.locked
    /\ \/ LockTick(<<>>, "lock", <<>>, [lock EXCEPT !.locked = TRUE])
       \/ \E command \in state.commands, rename \in CommandNames :
             LockTick(<<command, rename>>, "lock",
                      manage_commands_rename(state, command, rename),
                      [lock EXCEPT !.locked = TRUE])

InitLock ==
    /\ Init
    /\ disk \in {FreshDisk, StoredProject(TRUE, FALSE, "default")}

NextLock ==
    \/ LockPassword
    \/ LockWrappedTab
    \/ LockPress

SpecLock == InitLock /\ [][NextLock]_vars

(***************************************************************************)
(* The BindingsMap driven call by call, from the empty map                 *)
(***************************************************************************)
NoCall == [op |-> "none"]

InitBM ==
    /\ bm = BindingsMapDefault
    /\ bmLast = NoCall
    /\ panicked = FALSE
    /\ lock = PasswordLockNew
    /\ state = StateDefault
    /\ disk = FreshDisk
    /\ toasts = <<>>
    /\ last = NoTick
    /\ ticks = 0
    /\ tree = NoneC
    /\ treeLast = NoCall
    /\ fnLast = NoCall
    /\ thread = NoThread

CallAddBinding(c, b) ==
    /\ ~panicked
    /\ Len(MapGetOr(bm.binding_to_commands, PButtonOf(b), <<>>)) < MaxBound
    /\ bm' = add_binding(bm, c, b)
    /\ bmLast' = [op |-> "add_binding", command |-> c, binding |-> b, pre |-> bm]
    /\ UNCHANGED <<panicked, appVars, treeVars, fnVars, lock>>

CallRemoveBinding(c, b) ==
    /\ ~panicked
    /\ IF remove_binding_panics(bm, c, b)
       THEN /\ panicked' = TRUE
            /\ UNCHANGED bm
       ELSE /\ bm' = remove_binding(bm, c, b)
            /\ UNCHANGED panicked
    /\ bmLast' = [op |-> "remove_binding", command |-> c, binding |-> b, pre |-> bm]
    /\ UNCHANGED <<appVars, treeVars, fnVars, lock>>

CallRemoveCommand(c) ==
    /\ ~panicked
    /\ bm' = remove_command(bm, c)
    /\ bmLast' = [op |-> "remove_command", command |-> c, pre |-> bm]
    /\ UNCHANGED <<panicked, appVars, treeVars, fnVars, lock>>

CallRenameBinding(from, to) ==
    /\ ~panicked
    /\ IF rename_binding_panics(bm, from, to)
       THEN /\ panicked' = TRUE
            /\ UNCHANGED bm
       ELSE /\ bm' = rename_binding(bm, from, to)
            /\ UNCHANGED panicked
    /\ bmLast' = [op |-> "rename_binding", from |-> from, to |-> to, pre |-> bm]
    /\ UNCHANGED <<appVars, treeVars, fnVars, lock>>

NextBM ==
    \/ \E c \in CommandNames, b \in Bindings : CallAddBinding(c, b)
    \/ \E c \in CommandNames, b \in Bindings : CallRemoveBinding(c, b)
    \/ \E c \in CommandNames : CallRemoveCommand(c)
    \/ \E from \in CommandNames, to \in CommandNames : CallRenameBinding(from, to)

SpecBM == InitBM /\ [][NextBM]_vars

(***************************************************************************)
(* The Constants tree driven call by call                                  *)
(***************************************************************************)
\* trees a bindings.json can hold when the program starts
InitTrees == { NoneC, IntC(1), ObjectC([k \in {"a"} |-> IntC(1)]) }

InitConst ==
    /\ tree \in InitTrees
    /\ treeLast = NoCall
    /\ panicked = FALSE
    /\ lock = PasswordLockNew
    /\ state = StateDefault
    /\ disk = FreshDisk
    /\ toasts = <<>>
    /\ last = NoTick
    /\ ticks = 0
    /\ bm = BindingsMapDefault
    /\ bmLast = NoCall
    /\ fnLast = NoCall
    /\ thread = NoThread

CallAddOption(key, value) ==
    /\ ~panicked
    /\ tree' = add_option(tree, key, value).node
    /\ treeLast' = [op |-> "add_option", key |-> key, value |-> value, pre |-> tree,
                    conflict |-> add_option(tree, key, value).conflict]
    /\ UNCHANGED <<panicked, appVars, bmVars, fnVars, lock>>

CallRemoveKey(key) ==
    /\ ~panicked
    /\ IF remove_key_panics(tree, key)
       THEN /\ panicked' = TRUE
            /\ UNCHANGED tree
       ELSE /\ tree' = remove_key(tree, key)
            /\ UNCHANGED panicked
    /\ treeLast' = [op |-> "remove_key", key |-> key, pre |-> tree]
    /\ UNCHANGED <<appVars, bmVars, fnVars, lock>>

\* the tree after one display_tab call that returned r
EventHandled(op, key, value, r) ==
    /\ tree' = r.state.constants
    /\ panicked' = r.panic
    /\ treeLast' = [op |-> op, key |-> key, value |-> value, pre |-> tree,
                    rets |-> r.rets, toasts |-> r.toasts, written |-> r.disk # FreshDisk]

\* the AddOption event handled by a State whose constants are the tree
EventAddOption(key, value) ==
    /\ ~panicked
    /\ EventHandled("AddOption", key, value,
                    display_tab([StateDefault EXCEPT !.constants = tree], FreshDisk,
                                <<AddOption(key, value)>>, {}))
    /\ UNCHANGED <<appVars, bmVars, fnVars, lock>>

\* the RemoveOption event of the constants tab (the X of a value row, or of an empty
\* Object's header) handled by a State whose global tree is the tree, whose active
\* profile holds the overrides `own` and whose other profile's document holds
\* `other`: overrides made for an earlier shape of the global tree
EventRemoveOption(key, own, other) ==
    /\ ~panicked
    /\ has_entry(tree, key)
    /\ entry_at(tree, key).tag = "Object" => entry_at(tree, key).map = EmptyMap
    /\ EventHandled("RemoveOption", key, <<own, other>>,
                    display_tab([StateDefault EXCEPT !.constants = tree,
                                                     !.driver_constants = own,
                                                     !.profiles = <<"comp", "default">>],
                                WriteProfileDoc(from_directory_disk(FreshDisk), "comp",
                                                [ProfileDefault EXCEPT !.constants = other]),
                                <<RemoveOption(key)>>, {}))
    /\ UNCHANGED <<appVars, bmVars, fnVars, lock>>

NextConst ==
    \/ \E key \in OptionLocations, value \in OptionValues : CallAddOption(key, value)
    \/ \E key \in OptionLocations : CallRemoveKey(key)
    \/ \E key \in OptionLocations, value \in OptionValues : EventAddOption(key, value)
    \/ \E key \in OptionLocations :
          \E own, other \in { NoneC, ObjectC([k \in {"a"} |-> IntC(1)]),
                              ObjectC([k \in {"b"} |-> IntC(1)]) } :
              EventRemoveOption(key, own, other)

SpecConst == InitConst /\ [][NextConst]_vars

(***************************************************************************)
(* The pure functions called on their own                                  *)
(***************************************************************************)
\* the number input starts with a text typed into it: three numerals and two
\* operators, flat or with one pair of parentheses, padded or not
InitPure ==
    /\ \/ fnLast = NoCall
       \/ \E a \in {<<"2">>, <<"2", ".", "1">>}, b \in {<<"3">>},
             c \in {<<"1">>, <<"2">>, <<"5">>},
             o1 \in {"*", "/", "+", "-"}, o2 \in {"*", "/", "+", "-"},
             form \in {"flat", "left", "right"},
             outer \in {<<>>, <<" ", " ">>}, inner \in {<<>>, <<" ">>} :
             LET open(f) == IF form = f THEN <<"(">> \o inner ELSE <<>>
                 close(f) == IF form = f THEN inner \o <<")">> ELSE <<>>
             IN  fnLast = [op |-> "text", form |-> form, a |-> a, o1 |-> o1, b |-> b,
                           o2 |-> o2, c |-> c,
                           text |-> outer \o open("left") \o a \o inner \o <<o1>> \o inner
                                      \o open("right") \o b \o close("left") \o inner
                                      \o <<o2>> \o inner \o c \o close("right") \o outer]
    /\ thread = NoThread
    /\ panicked = FALSE
    /\ lock = PasswordLockNew
    /\ state = StateDefault
    /\ disk = FreshDisk
    /\ toasts = <<>>
    /\ last = NoTick
    /\ ticks = 0
    /\ bm = BindingsMapDefault
    /\ bmLast = NoCall
    /\ tree = NoneC
    /\ treeLast = NoCall

CallDefaultForType(t) ==
    /\ ~panicked
    /\ IF default_for_type_panics(t)
       THEN /\ panicked' = TRUE
            /\ fnLast' = [op |-> "default_for_type", t |-> t, returned |-> FALSE]
       ELSE /\ UNCHANGED panicked
            /\ fnLast' = [op |-> "default_for_type", t |-> t, returned |-> TRUE,
                          value |-> default_for_type(t)]
    /\ UNCHANGED <<thread, appVars, bmVars, treeVars, lock>>

CallValidBinding(c, button) ==
    /\ ~panicked
    /\ fnLast' = [op |-> "valid_binding", c |-> c, button |-> button,
                  result |-> valid_binding(c, button)]
    /\ UNCHANGED <<panicked, thread, appVars, bmVars, treeVars, lock>>

\* button_name as the match computes it: the label, or a panic (the XBox name
\* table indexed outside 1..10, todo!() for an analog button of a Generic
\* controller); a Pov button is named without looking at the controller
button_name(c, button) ==
    LET named(n) == [panic |-> FALSE, name |-> n]
        aborts == [panic |-> TRUE, name |-> ""]
    IN  CASE button.location = "Button" ->
               ( CASE c.type = "Generic" -> named(ToString(button.button))
                   [] c.type = "XBox" ->
                        IF button.button \in 1..10
                        THEN named(<<"a", "b", "x", "y", "left bumper", "right bumper", "back",
                                     "start", "left stick", "right stick">>[button.button])
                        ELSE aborts
                   [] c.type = "NotBound" -> named("ERROR") )
          [] button.location = "Pov" ->
               ( CASE button.button = 0 -> named("pov up")
                   [] button.button = 45 -> named("pov up right")
                   [] button.button = 90 -> named("pov right")
                   [] button.button = 135 -> named("pov down right")
                   [] button.button = 180 -> named("pov down")
                   [] button.button = 225 -> named("pov down left")
                   [] button.button = 270 -> named("pov left")
                   [] button.button = 315 -> named("pov up left")
                   [] button.button = -1 -> named("no pov")
                   [] OTHER -> named("ERROR") )
          [] button.location = "Analog" ->
               ( CASE c.type = "Generic" -> aborts
                   [] c.type = "XBox" ->
                        named(CASE button.button = 2 -> "left trigger"
                                [] button.button = 3 -> "right trigger"
                                [] OTHER -> "invalid trigger")
                   [] c.type = "NotBound" -> named("ERROR") )

\* axis_name(axis: u8)
axis_name(c, axis) ==
    CASE c.type = "Generic" -> ToString(axis)
      [] c.type = "XBox" ->
           IF axis \in 0..5
           THEN <<"left x axis", "left y axis", "left trigger", "right trigger",
                  "right x axis", "right y axis">>[axis + 1]
           ELSE "ERROR"
      [] c.type = "NotBound" -> "ERROR"

\* ControllerType::enumerate_povs: the same nine directions for every variant
enumerate_povs(c) ==
    [i \in 1..9 |-> [button |-> <<-1, 0, 45, 90, 135, 180, 225, 270, 315>>[i],
                     location |-> "Pov"]]

\* ControllerType::enumerate_analog: the two triggers of an XBox controller
enumerate_analog(c) ==
    IF c.type = "XBox"
    THEN <<[button |-> 2, location |-> "Analog"], [button |-> 3, location |-> "Analog"]>>
    ELSE <<>>

\* ControllerType::enumerate_buttons: the numbered buttons, then the povs, then
\* the analog triggers
enumerate_buttons(c) ==
    [i \in 1..num_buttons(c) |-> [button |-> i, location |-> "Button"]]
        \o enumerate_povs(c) \o enumerate_analog(c)

\* the button selector lists the buttons of a controller
CallEnumerateButtons(c) ==
    /\ ~panicked
    /\ fnLast' = [op |-> "enumerate_buttons", c |-> c, buttons |-> enumerate_buttons(c)]
    /\ UNCHANGED <<thread, appVars, bmVars, treeVars, panicked, lock>>

CallButtonName(c, button) ==
    /\ ~panicked
    /\ panicked' = button_name(c, button).panic
    /\ fnLast' = [op |-> "button_name", c |-> c, button |-> button,
                  name |-> button_name(c, button).name]
    /\ UNCHANGED <<thread, appVars, bmVars, treeVars, lock>>

CallAxisName(c, axis) ==
    /\ ~panicked
    /\ fnLast' = [op |-> "axis_name", c |-> c, axis |-> axis, name |-> axis_name(c, axis)]
    /\ UNCHANGED <<panicked, thread, appVars, bmVars, treeVars, lock>>

(***************************************************************************)
(* number_input.rs: the expression parser                                  *)
(***************************************************************************)
\* a plausible slip: one binding power for the four operators
infix_left_flat(c) == 1

\* the n of infix(left(n), op(c), ..) in the operator table handed to pratt
infix_left(c) == IF c \in {"*", "/"} THEN 2 ELSE 1

\* parse(s) on a text given as its characters. An f64 read from a numeral is
\* the decimal [m, e] with value m / 10^e and no trailing zero in the fraction.
\* A left-associative operator of power n binds with left power 2n and parses
\* its right operand at power 2n + 1.
parse(s) ==
    LET Fail == [ok |-> FALSE]
        Digits == <<"0", "1", "2", "3", "4", "5", "6", "7", "8", "9">>
        IsDigit(c) == \E i \in 1..10 : Digits[i] = c
        DigitValue(c) == (CHOOSE i \in 1..10 : Digits[i] = c) - 1
        Drop(t, n) == SubSeq(t, n + 1, Len(t))
        StartsWith(t, w) == Len(t) >= Len(w) /\ SubSeq(t, 1, Len(w)) = w
        RECURSIVE padding(_), run(_), natural(_, _), trimmed(_)
        \* .padded(): whitespace is skipped
        padding(t) == IF t # <<>> /\ Head(t) \in {" ", "\t", "\n"} THEN padding(Tail(t)) ELSE t
        \* \d* : the number of leading digits
        run(t) == IF t # <<>> /\ IsDigit(Head(t)) THEN 1 + run(Tail(t)) ELSE 0
        natural(t, acc) == IF t = <<>> THEN acc
                           ELSE natural(Tail(t), 10 * acc + DigitValue(Head(t)))
        trimmed(t) == IF t # <<>> /\ t[Len(t)] = "0" THEN trimmed(SubSeq(t, 1, Len(t) - 1)) ELSE t
        \* str::parse::<f64>
        f64(neg, whole, fraction) ==
            [m |-> (IF neg THEN -1 ELSE 1) * natural(whole \o trimmed(fraction), 0),
             e |-> Len(trimmed(fraction))]
        \* regex("-?\\d+(\\.\\d*)?") .padded()
        num(t) ==
            LET t0 == padding(t)
                neg == t0 # <<>> /\ Head(t0) = "-"
                t1 == IF neg THEN Tail(t0) ELSE t0
                n == run(t1)
                t2 == Drop(t1, n)
                dot == t2 # <<>> /\ Head(t2) = "."
                k == IF dot THEN run(Tail(t2)) ELSE 0
                t3 == IF dot THEN Drop(t2, k + 1) ELSE t2
            IN  IF n = 0 THEN Fail
                ELSE [ok |-> TRUE, rest |-> padding(t3),
                      val |-> f64(neg, SubSeq(t1, 1, n), IF dot THEN SubSeq(t2, 2, k + 1) ELSE <<>>)]
        \* just("m").or(just("cm")) ... .padded()
        unit(t) ==
            LET t0 == padding(t)
                as(w, con) == [ok |-> TRUE, con |-> con, rest |-> padding(Drop(t0, Len(w)))]
            IN  CASE StartsWith(t0, <<"m">>) -> as(<<"m">>, "Meters")
                  [] StartsWith(t0, <<"c", "m">>) -> as(<<"c", "m">>, "Centimeters")
                  [] StartsWith(t0, <<"f", "t">>) -> as(<<"f", "t">>, "Feet")
                  [] StartsWith(t0, <<"i", "n">>) -> as(<<"i", "n">>, "Inches")
                  [] StartsWith(t0, <<"r", "a", "d">>) -> as(<<"r", "a", "d">>, "Radians")
                  [] StartsWith(t0, <<"d", "e", "g">>) -> as(<<"d", "e", "g">>, "Degrees")
                  [] OTHER -> Fail
        fold(c, l, r) ==
            [tag |-> CASE c = "*" -> "Mult" [] c = "/" -> "Div" [] c = "+" -> "Add"
                       [] c = "-" -> "Sub",
             l |-> l, r |-> r]
        RECURSIVE atom(_), pratt(_, _), infix(_, _, _)
        \* num.then(unit or nothing) .or(a.delimited_by('(', ')'))
        atom(t) ==
            LET n == num(t)
                t0 == padding(t)
            IN  IF n.ok
                THEN IF unit(n.rest).ok
                     THEN [ok |-> TRUE, rest |-> unit(n.rest).rest,
                           val |-> [tag |-> unit(n.rest).con, v |-> n.val]]
                     ELSE [ok |-> TRUE, rest |-> n.rest, val |-> [tag |-> "Num", v |-> n.val]]
                ELSE IF t0 # <<>> /\ Head(t0) = "("
                THEN LET a == pratt(padding(Tail(t0)), 0)
                         t1 == padding(a.rest)
                     IN  IF a.ok /\ t1 # <<>> /\ Head(t1) = ")"
                         THEN [ok |-> TRUE, rest |-> padding(Tail(t1)), val |-> a.val]
                         ELSE Fail
                ELSE Fail
        \* atom.pratt(..) entered at a minimum binding power
        pratt(t, min) ==
            LET a == atom(t) IN IF a.ok THEN infix(a.val, a.rest, min) ELSE Fail
        \* the operator loop: an operator is taken when its left power reaches
        \* the minimum and a right operand follows; otherwise the input is
        \* rewound to before the operator
        infix(lhs, t, min) ==
            LET t0 == padding(t)
                here == [ok |-> TRUE, rest |-> t, val |-> lhs]
            IN  IF t0 = <<>> \/ Head(t0) \notin {"*", "/", "+", "-"} THEN here
                ELSE IF 2 * infix_left(Head(t0)) < min THEN here
                ELSE LET r == pratt(padding(Tail(t0)), 2 * infix_left(Head(t0)) + 1)
                     IN  IF r.ok THEN infix(fold(Head(t0), lhs, r.val), r.rest, min) ELSE here
        whole == pratt(s, 0)
    IN  \* .parse(s): the whole input must be consumed
        IF whole.ok /\ whole.rest = <<>> THEN [ok |-> TRUE, ast |-> whole.val] ELSE Fail

\* the parse(s) call of the number input on the text typed into it
CallParse ==
    /\ ~panicked
    /\ fnLast.op = "text"
    /\ fnLast' = [op |-> "parse", form |-> fnLast.form, a |-> fnLast.a, o1 |-> fnLast.o1,
                  b |-> fnLast.b, o2 |-> fnLast.o2, c |-> fnLast.c, text |-> fnLast.text,
                  parsed |-> parse(fnLast.text)]
    /\ UNCHANGED <<panicked, thread, appVars, bmVars, treeVars, lock>>

\* valid_binding is asked about every location and the indices around its limits
\* (Button::button is an i16, Generic::buttons a u8)
NextPure ==
    \/ \E t \in TypesUpTo(MaxTypeDepth) : CallDefaultForType(t)
    \/ \E c \in { NotBound, XBox, Generic(5, 2), Generic(0, 0), Generic(255, 0) },
          i \in (-2 .. 11) \cup { 45, 90, 135, 180, 225, 270, 315, 360, 255, 256 },
          l \in { "Button", "Analog", "Pov" } :
          CallValidBinding(c, [button |-> i, location |-> l])
    \/ \E c \in { NotBound, XBox, Generic(5, 2) },
          i \in (-1 .. 11) \cup { 45, 90, 135, 180, 225, 270, 315, 360 },
          l \in { "Button", "Analog", "Pov" } :
          CallButtonName(c, [button |-> i, location |-> l])
    \/ \E c \in { NotBound, XBox, Generic(5, 2) }, axis \in (0 .. 6) \cup {255} :
          CallAxisName(c, axis)
    \/ \E c \in { NotBound, XBox, Generic(5, 2), Generic(0, 0), Generic(255, 0) } :
          CallEnumerateButtons(c)
    \/ CallParse

SpecPure == InitPure /\ [][NextPure]_vars

(***************************************************************************)
(* Opening a directory picked by the user                                  *)
(***************************************************************************)
\* the picked path is a directory or not; below it, profile and bindings.json
\* are absent, a directory or a file, and bindings/ holds some documents
InitOpen ==
    /\ fnLast \in { [op |-> "picked", is_dir |-> b] : b \in BOOLEAN }
    /\ \E marker \in { Absent, Dir, File("default"), File("comp") },
          global \in { Absent, Dir, StoredProject(TRUE, TRUE, "comp").bindings_json },
          names \in SUBSET ProfileNames :
          disk = [FreshDisk EXCEPT
                      !.profile = marker,
                      !.bindings_json = global,
                      !.bindings_dir =
                          [n \in names |-> StoredProject(TRUE, TRUE, "comp").bindings_dir[n]]]
    /\ thread = NoThread
    /\ panicked = FALSE
    /\ lock = PasswordLockNew
    /\ state = StateDefault
    /\ toasts = <<>>
    /\ last = NoTick
    /\ ticks = 0
    /\ bm = BindingsMapDefault
    /\ bmLast = NoCall
    /\ tree = NoneC
    /\ treeLast = NoCall

\* State::from_directory(path): an error and no State, or a State; the marker
\* file is created once the first two tests have passed
OpenDirectory ==
    /\ fnLast.op = "picked"
    /\ fnLast' = [op |-> "from_directory", is_dir |-> fnLast.is_dir, pre |-> disk,
                  err |-> from_directory_err(fnLast.is_dir, disk)]
    /\ disk' = IF fnLast.is_dir /\ disk.profile # Dir THEN from_directory_disk(disk) ELSE disk
    /\ state' = IF from_directory_err(fnLast.is_dir, disk) = "" THEN from_directory(disk)
                ELSE state
    /\ UNCHANGED <<thread, panicked, toasts, last, ticks, bmVars, treeVars, lock>>

SpecOpen == InitOpen /\ [][OpenDirectory]_vars

(***************************************************************************)
(* Syncing: the scp child held by State, and the sync thread               *)
(***************************************************************************)
\* UI ticks explored in the syncing runs
MaxSyncTicks == 3

\* commands the UI sends to the sync thread
MaxSends == 3

\* errors the sync thread may send before the run is cut off
MaxErrors == 2

\* spawn_thead: the locals of the task, the two channels, and the children it has
\* spawned; `seen` and the pre* fields record the loop's latest turn
ThreadSpawned ==
    [ spawned |-> TRUE, running |-> TRUE, command |-> <<>>, url |-> <<>>,
      inbox |-> <<>>, sent |-> 0, errors |-> <<>>, procs |-> <<>>,
      seen |-> "none", preCommand |-> <<>>, preErrors |-> 0, preLen |-> 0 ]

\* either State drives the sync from write_out, on a fresh directory or on a
\* project saved earlier with a robot address, or the sync thread does
InitSync ==
    /\ \/ /\ thread = NoThread
          /\ \E d \in { FreshDisk,
                         [ FreshDisk EXCEPT
                             !.profile = File("default"),
                             !.bindings_json =
                                File(SaveDataToDoc([url |-> <<"robot">>, commands |-> {},
                                                    constants |-> NoneC,
                                                    streams |-> {}])) ] } :
                /\ disk = from_directory_disk(d)
                /\ state = from_directory(d)
       \/ /\ thread = ThreadSpawned
          /\ disk = FreshDisk
          /\ state = StateDefault
    /\ toasts = <<>>
    /\ last = NoTick
    /\ ticks = 0
    /\ bm = BindingsMapDefault
    /\ bmLast = NoCall
    /\ tree = NoneC
    /\ treeLast = NoCall
    /\ fnLast = NoCall
    /\ panicked = FALSE
    /\ lock = PasswordLockNew

\* one display_tab call of a syncing run
SyncTick(gesture, rendered, events, bad) ==
    /\ ~panicked
    /\ ~thread.spawned
    /\ ticks < MaxSyncTicks
    /\ Ticked(<<>>, gesture, rendered, events, bad,
              display_tab(rendered, disk, events, bad))
    /\ UNCHANGED lock

\* tabs/syncing.rs: "setup syncing" sets the url in place and emits nothing
SyncingSetup ==
    /\ state.url = <<>>
    /\ SyncTick("setup syncing", [state EXCEPT !.url = <<"">>], <<>>, {})

\* tabs/syncing.rs: an edit of the url field emits Save
SyncingEditUrl ==
    /\ state.url # <<>>
    /\ \E url \in {"", "robot"} \ Range(state.url), bad \in {{}, {<<"kill">>}, {<<"spawn">>}} :
          SyncTick("edit url", [state EXCEPT !.url = <<url>>], <<Save>>, bad)

\* tabs/syncing.rs: "disable syncing" / "enable syncing" flips the flag in place
SyncingToggle ==
    /\ state.url # <<>>
    /\ SyncTick("toggle syncing", [state EXCEPT !.syncing = ~@], <<>>, {})

\* any other tab's edit that ends in write_out
SyncingPersist ==
    \E bad \in {{}, {<<"kill">>}, {<<"spawn">>}, {GlobalFile}} :
        SyncTick("add command", state, <<AddCommand("shoot")>>, bad)

\* an scp child, spawned by write_out or by the thread, ends on its own
ChildExits ==
    /\ ~panicked
    /\ IF thread.spawned
       THEN /\ \E p \in DOMAIN thread.procs, status \in {"done", "failed"} :
                  /\ thread.procs[p] = "running"
                  /\ thread' = [thread EXCEPT !.procs[p] = status]
            /\ UNCHANGED disk
       ELSE /\ \E p \in DOMAIN disk.procs, status \in {"done", "failed"} :
                  /\ disk.procs[p] = "running"
                  /\ disk' = [disk EXCEPT !.procs[p] = status]
            /\ UNCHANGED thread
    /\ UNCHANGED <<state, toasts, last, ticks, panicked, bmVars, treeVars, fnLast, lock>>

\* the thread's record at the start of a turn of its loop
Turn(seen) ==
    [ thread EXCEPT !.seen = seen, !.preCommand = thread.command,
                    !.preErrors = Len(thread.errors), !.preLen = Len(thread.procs) ]

\* the UI sends a command down the channel
ThreadSend ==
    /\ ~panicked
    /\ thread.spawned
    /\ thread.sent < MaxSends
    /\ \E c \in { [c |-> "UpdateUrl", url |-> <<>>], [c |-> "UpdateUrl", url |-> <<"robot">>],
                  [c |-> "NewSync"], [c |-> "Quit"] } :
          thread' = [thread EXCEPT !.inbox = Append(@, c), !.sent = @ + 1]
    /\ UNCHANGED <<panicked, appVars, bmVars, treeVars, fnLast, lock>>

\* the NewSync arm after a kill_command that did not panic: the held child is
\* killed and dropped, then scp is spawned when a url is known
thread_new_sync(t, spawnFails) ==
    LET k == IF t.command = <<>> THEN t
             ELSE [t EXCEPT !.procs = kill_child(@, t.command), !.command = <<>>]
    IN  IF k.url = <<>> THEN k
        ELSE IF spawnFails THEN [k EXCEPT !.errors = Append(@, "spawn")]
        ELSE [k EXCEPT !.procs = Append(@, "running"), !.command = <<Len(k.procs) + 1>>]

\* SyncEvents::NewCommand: the loop takes the next command off the channel (with a
\* child held, race may pick this arm whenever a command is waiting)
ThreadNewCommand ==
    /\ ~panicked
    /\ thread.spawned /\ thread.running
    /\ thread.inbox # <<>>
    /\ LET c == Head(thread.inbox)
           t == [Turn(c.c) EXCEPT !.inbox = Tail(@)]
       IN  CASE c.c = "UpdateUrl" ->
                  /\ thread' = [t EXCEPT !.url = c.url]
                  /\ UNCHANGED panicked
             [] c.c = "Quit" ->
                  /\ thread' = [t EXCEPT !.running = FALSE]
                  /\ UNCHANGED panicked
             [] c.c = "NewSync" ->
                  \E killFails \in {FALSE, t.command # <<>>}, spawnFails \in BOOLEAN :
                      /\ spawnFails => Len(t.errors) < MaxErrors
                      /\ IF killFails
                         THEN /\ panicked' = TRUE
                              /\ thread' = t
                         ELSE /\ UNCHANGED panicked
                              /\ thread' = thread_new_sync(t, spawnFails)
    /\ UNCHANGED <<appVars, bmVars, treeVars, fnLast, lock>>

\* SyncEvents::CommandFinished: the held child has exited (Ok(status)), or its
\* status could not be obtained (Err(err))
ThreadCommandFinished ==
    /\ ~panicked
    /\ thread.spawned /\ thread.running
    /\ thread.command # <<>>
    /\ LET status == thread.procs[thread.command[1]] IN
       \/ /\ status = "failed"
          /\ Len(thread.errors) < MaxErrors
          /\ thread' = [Turn("exit failure") EXCEPT !.errors = Append(@, "failed to sync"),
                                                    !.command = <<>>]
       \/ /\ status = "done"
          /\ thread' = Turn("exit success")
       \/ /\ Len(thread.errors) < MaxErrors
          /\ thread' = [Turn("status error") EXCEPT !.errors = Append(@, "status")]
    /\ UNCHANGED <<panicked, appVars, bmVars, treeVars, fnLast, lock>>

NextSync ==
    \/ SyncingSetup
    \/ SyncingEditUrl
    \/ SyncingToggle
    \/ SyncingPersist
    \/ ChildExits
    \/ ThreadSend
    \/ ThreadNewCommand
    \/ ThreadCommandFinished

SpecSync == InitSync /\ [][NextSync]_vars

(***************************************************************************)
(* Properties of the BindingsMap                                           *)
(***************************************************************************)
Mirror(m) ==
    \A c \in CommandNames, b \in Bindings :
        has_binding(m, c, b)
            <=> Contains(MapGetOr(m.binding_to_commands, PButtonOf(b), <<>>), <<c, b.during>>)

NoDuplicates(s) == Cardinality(Range(s)) = Len(s)

\* C1: after every sequence of add_binding, remove_binding, remove_command and
\* rename_binding calls from the empty map, command c has binding b in
\* command_to_bindings iff binding_to_commands[(b.controller, b.button)]
\* contains (c, b.during).
C1_MirrorInvariant == Mirror(bm)

\* C7: add_binding(c, b) with (c, b) already present leaves both indices
\* unchanged, and no (command, binding) pair ever appears twice in
\* command_to_bindings.
C7_NoDuplicateBindings ==
    /\ (bmLast.op = "add_binding" /\ has_binding(bmLast.pre, bmLast.command, bmLast.binding))
          => bm = bmLast.pre
    /\ \A c \in DOMAIN bm.command_to_bindings : NoDuplicates(bm.command_to_bindings[c])

\* C7 witness: a repeated add_binding of a pair the command already holds,
\* next to another binding of the same command.
C7_Witness ==
    /\ bmLast.op = "add_binding"
    /\ has_binding(bmLast.pre, bmLast.command, bmLast.binding)
    /\ Len(bm.command_to_bindings[bmLast.command]) >= 2

\* C8 (as stated): after rename_binding(old, new) on a map in which old has an
\* entry, bindings_for_command(new) yields exactly what bindings_for_command(old)
\* yielded before, and bindings_for_command(old) yields nothing.
C8_RenameAsStated ==
    (bmLast.op = "rename_binding" /\ ~panicked)
        => /\ bindings_for_command(bm, bmLast.to)
                = bindings_for_command(bmLast.pre, bmLast.from)
           /\ bindings_for_command(bm, bmLast.from) = <<>>

\* C8 (amended): after rename_binding(old, new) on a map in which old has an
\* entry, bindings_for_command(new) yields exactly what bindings_for_command(old)
\* yielded before, and, when new differs from old, bindings_for_command(old)
\* yields nothing.
C8_RenamePreservesBindings ==
    (bmLast.op = "rename_binding" /\ ~panicked)
        => /\ bindings_for_command(bm, bmLast.to)
                = bindings_for_command(bmLast.pre, bmLast.from)
           /\ bmLast.to # bmLast.from
                => bindings_for_command(bm, bmLast.from) = <<>>

\* C8 witness: a completed rename of a command with two bindings onto a
\* different name that had bindings of its own.
C8_Witness ==
    /\ bmLast.op = "rename_binding"
    /\ ~panicked
    /\ bmLast.to # bmLast.from
    /\ Len(bindings_for_command(bmLast.pre, bmLast.from)) = 2
    /\ bindings_for_command(bmLast.pre, bmLast.to) # <<>>
    /\ bindings_for_command(bm, bmLast.to) = bindings_for_command(bmLast.pre, bmLast.from)

(***************************************************************************)
(* Reading a Constants tree                                                *)
(***************************************************************************)
IsPrefix(p, q) == Len(p) <= Len(q) /\ SubSeq(q, 1, Len(p)) = p

Unrelated(p, q) == ~IsPrefix(p, q) /\ ~IsPrefix(q, p)

Missing == [tag |-> "Missing"]

RECURSIVE Lookup(_, _)
\* the node found by following path through nested Object maps, or Missing
Lookup(node, path) ==
    IF path = <<>> THEN node
    ELSE IF node.tag = "Object" /\ Head(path) \in DOMAIN node.map
    THEN Lookup(node.map[Head(path)], Tail(path))
    ELSE Missing

\* some node at a non-final step is neither Object nor Null (nor absent), or
\* the node at the final step is neither Null nor absent
ConflictExpected(t, key) ==
    \/ \E i \in 0..(Len(key) - 1) :
          Lookup(t, SubSeq(key, 1, i)).tag \notin {"Object", "None", "Missing"}
    \/ Lookup(t, key).tag \notin {"None", "Missing"}

\* C9: add_option reports a conflict exactly when a node at a non-final step
\* of the path is neither Object nor Null or the node at the final step is not
\* Null; on a conflict the tree is exactly as before the call, and the
\* AddOption event then shows one error notice, returns false and writes
\* nothing to disk.
C9_AddOptionConflict ==
    /\ treeLast.op = "add_option" =>
          /\ treeLast.conflict <=> ConflictExpected(treeLast.pre, treeLast.key)
          /\ treeLast.conflict => tree = treeLast.pre
    /\ (treeLast.op = "AddOption" /\ ConflictExpected(treeLast.pre, treeLast.key)) =>
          /\ tree = treeLast.pre
          /\ treeLast.toasts = <<"failed to add constants">>
          /\ treeLast.rets = <<FALSE>>
          /\ ~treeLast.written

C9_Witness ==
    /\ treeLast.op = "AddOption"
    /\ Len(treeLast.key) = 2
    /\ Lookup(treeLast.pre, <<treeLast.key[1]>>).tag = "Int"
    /\ treeLast.rets = <<FALSE>>

\* C10: when add_option on a non-empty path reports no conflict, the node read
\* along the path afterwards is the value; after remove_key has returned, the
\* path reads absent or Null; entries that are neither on the path nor below
\* it read the same before and after either call.
C10_AddReadRemove ==
    /\ (treeLast.op = "add_option" /\ treeLast.key # <<>> /\ ~treeLast.conflict) =>
          /\ Lookup(tree, treeLast.key) = treeLast.value
          /\ \A q \in OptionLocations :
                Unrelated(q, treeLast.key) => Lookup(tree, q) = Lookup(treeLast.pre, q)
    /\ (treeLast.op = "remove_key" /\ treeLast.key # <<>> /\ ~panicked) =>
          /\ Lookup(tree, treeLast.key).tag \in {"Missing", "None"}
          /\ \A q \in OptionLocations :
                Unrelated(q, treeLast.key) => Lookup(tree, q) = Lookup(treeLast.pre, q)

C10_Witness ==
    /\ treeLast.op = "remove_key"
    /\ ~panicked
    /\ treeLast.key = <<"a", "a">>
    /\ Lookup(treeLast.pre, <<"a", "a">>).tag = "Int"
    /\ Lookup(tree, <<"a", "b">>).tag = "Driver"

(***************************************************************************)
(* Claims about the application                                            *)
(***************************************************************************)
\* the bindings profile n holds: the active profile's in memory, another's in
\* its document
ProfileBindings(st, d, n) ==
    IF n = st.profile THEN st.bindings.command_to_bindings
    ELSE get_profile(d, n, {}).profile.command_to_bindings

BoundIn(st, d, n, command) == MapGetOr(ProfileBindings(st, d, n), command, <<>>) # <<>>

DocOf(d, n) == ProfileFromDoc(d.bindings_dir[n])

\* C2: the manage-commands tab never emits RemoveCommand for a command that
\* some profile, active or not, still binds; it emits a DisplayError and the
\* command stays in the command set.
C2_RemoveRejectedWhileBound ==
    last.gesture = "remove command" =>
        \A i \in 1..Len(last.events) :
            last.events[i].type = "RemoveCommand" =>
                \A n \in Range(last.pre.profiles) :
                    ~BoundIn(last.pre, last.preDisk, n, last.events[i].command)

\* C3: after RenameCommand(old, new) with no I/O error, no profile's
\* document on disk has a key old, every profile that bound old has the former
\* bindings of old under new in its document, and the active profile's binding
\* map in memory has the same rewrite.
C3_RenameRewritesEveryProfile ==
    (/\ last.gesture = "rename command"
     /\ last.events[1].type = "RenameCommand"
     /\ last.bad = {}) =>
        LET old == last.events[1].old
            new == last.events[1].new
        IN  /\ toasts = <<>> /\ last.err = "" /\ ~panicked
            /\ \A n \in Range(last.pre.profiles) :
                  /\ n \in DOMAIN disk.bindings_dir
                  /\ old \notin DOMAIN DocOf(disk, n).command_to_bindings
                  /\ BoundIn(last.pre, last.preDisk, n, old) =>
                        MapGetOr(DocOf(disk, n).command_to_bindings, new, <<>>)
                            = ProfileBindings(last.pre, last.preDisk, n)[old]
            /\ bindings_for_command(state.bindings, old) = <<>>
            /\ BoundIn(last.pre, last.preDisk, last.pre.profile, old) =>
                  bindings_for_command(state.bindings, new)
                      = bindings_for_command(last.pre.bindings, old)

C3_Witness ==
    /\ last.gesture = "rename command"
    /\ last.events[1].type = "RenameCommand"
    /\ last.bad = {}
    /\ Len(last.pre.profiles) = 2
    /\ \A n \in Range(last.pre.profiles) :
          BoundIn(last.pre, last.preDisk, n, last.events[1].old)

\* C4: after RemoveOption(path) with no I/O error, path is absent from the
\* global tree, from every inactive profile's document, from the active
\* profile's override tree in memory and from the active profile's document
\* as the tick's persist wrote it.
C4_RemoveOptionEverywhere ==
    (/\ last.gesture = "remove option"
     /\ last.bad = {}
     /\ ~panicked) =>
        LET key == last.events[1].key IN
        /\ Lookup(state.constants, key) = Missing
        /\ \A n \in Range(state.profiles) :
              /\ n \in DOMAIN disk.bindings_dir
              /\ Lookup(DocOf(disk, n).constants, key) = Missing
        /\ Lookup(state.driver_constants, key) = Missing

\* C5: after a SetProfile(name) that raised no error, bindings, controllers,
\* controller names, per-profile overrides and stream routing in memory are
\* those of name's document, the active profile is name and the marker file
\* holds name.
C5_SetProfileLoadsDocument ==
    (/\ last.gesture = "set profile"
     /\ toasts = <<>>) =>
        LET name == last.events[1].profile
            doc == get_profile(last.preDisk, name, {}).profile
        IN  /\ state.bindings = BindingsMapFrom(doc.command_to_bindings)
            /\ state.controllers = doc.controllers
            /\ state.controller_names = doc.controller_names
            /\ state.driver_constants = doc.constants
            /\ state.stream_to_axis = doc.stream_to_axis
            /\ state.profile = name
            /\ disk.profile = File(name)

\* what handle_event is to return for event e met in State st
ReturnExpected(e, st) ==
    CASE e.type \in {"DisplayError", "AddProfile", "SetProfile"} -> FALSE
      [] e.type = "AddOption" -> ~ConflictExpected(st.constants, e.key)
      [] e.type = "AddOptionDriver" -> ~ConflictExpected(st.driver_constants, e.key)
      [] OTHER -> TRUE

C16_SetProfileErrorIsNotice ==
    (/\ last.gesture = "set profile"
     /\ \/ MarkerFile \in last.bad
        \/ /\ ProfileFile(last.events[1].profile) \in last.bad
           /\ last.events[1].profile \in DOMAIN last.preDisk.bindings_dir) =>
        /\ Len(toasts) = 1
        /\ last.rets = <<FALSE>>
        /\ last.err = ""
        /\ ~panicked
        /\ ticks < MaxTicks => ENABLED ManageCommandsAdd

\* C16 witness: the selected profile's document could not be read
C16_Witness ==
    /\ last.gesture = "set profile"
    /\ ProfileFile(last.events[1].profile) \in last.bad
    /\ last.events[1].profile \in DOMAIN last.preDisk.bindings_dir
    /\ toasts # <<>>
    /\ ticks < MaxTicks

\* the latest tick applied an update and its write_out returned Ok
Persisted ==
    /\ last.gesture # "none"
    /\ \E i \in 1..Len(last.rets) : last.rets[i]
    /\ last.err = ""
    /\ ~panicked

\* C14: after AddCommand("shoot") and AddBinding("shoot", controller 0 / Button 3 /
\* OnTrue) have been applied and persisted, is_used("shoot") and
\* has_button((0, Button 3)) hold and both documents show the command and the
\* binding; in general every successful persist leaves bindings.json and
\* bindings/<active>.json equal to the in-memory state.
C14_PersistWritesMemory ==
    Persisted =>
        LET global == SaveDataFromDoc(Content(disk.bindings_json))
            doc == DocOf(disk, state.profile)
        IN  /\ global.commands = state.commands
            /\ global.streams = state.streams
            /\ global.constants = state.constants
            /\ global.url = state.url
            /\ state.profile \in DOMAIN disk.bindings_dir
            /\ doc.command_to_bindings = state.bindings.command_to_bindings
            /\ doc.controllers = state.controllers
            /\ doc.controller_names = state.controller_names
            /\ doc.constants = state.driver_constants
            /\ doc.stream_to_axis = state.stream_to_axis
            /\ (/\ last.events = <<AddBinding(B3OnTrue, "shoot")>>
                /\ "shoot" \in last.pre.commands) =>
                  /\ bm_is_used(state.bindings, "shoot")
                  /\ has_button(state.bindings, PButtonOf(B3OnTrue))
                  /\ "shoot" \in global.commands
                  /\ Contains(doc.command_to_bindings["shoot"], B3OnTrue)

\* C14 witness: "shoot" has been bound to Button 3 of controller 0 and persisted
C14_Witness ==
    /\ Persisted
    /\ last.events = <<AddBinding(B3OnTrue, "shoot")>>
    /\ ~bm_is_used(last.pre.bindings, "shoot")
    /\ bm_is_used(state.bindings, "shoot")

\* C15: persisting is lossless: after a successful write_out, from_directory on the
\* same directory reconstructs the url, the commands, the streams, the global
\* constants, and the active profile's bindings (both indices), controllers,
\* controller names, driver overrides and stream routing.
C15_PersistIsLossless ==
    Persisted =>
        LET opened == from_directory(disk)
        IN  /\ opened.url = state.url
            /\ opened.commands = state.commands
            /\ opened.streams = state.streams
            /\ opened.constants = state.constants
            /\ opened.bindings = state.bindings
            /\ opened.controllers = state.controllers
            /\ opened.controller_names = state.controller_names
            /\ opened.driver_constants = state.driver_constants
            /\ opened.stream_to_axis = state.stream_to_axis

\* C30: when SetProfile(name) fails with an I/O error the in-memory state is
\* unchanged: the active profile is still the previous one, so that a later persist
\* cannot write the previous profile's data into bindings/<name>.json.
C30_FailedSetProfileKeepsState ==
    (last.gesture = "set profile" /\ toasts # <<>>) =>
        /\ state.profile = last.pre.profile
        /\ state = last.pre

\* C29: the global constants tree is changed only by AddOption and RemoveOption,
\* and only at the addressed path: SetProfile, RenameCommand and every other event
\* leave it as it was, and every entry unrelated to the path of a RemoveOption or
\* an AddOption is as before.
C29_GlobalConstantsFrame ==
    (last.gesture # "none" /\ ~panicked) =>
        IF last.gesture \in {"add option", "remove option"}
        THEN \A k \in OptionLocations :
                Unrelated(last.events[1].key, k) =>
                    Lookup(state.constants, k) = Lookup(last.pre.constants, k)
        ELSE state.constants = last.pre.constants

\* C28: every command that has at least one binding in some profile, the active
\* one in memory or any profile document on disk, is in the global command set.
C28_BoundCommandsAreDeclared ==
    \A n \in Range(state.profiles) \cup DOMAIN disk.bindings_dir :
        \A c \in CommandNames :
            BoundIn(state, disk, n, c) => c \in state.commands

\* the routing profile n holds: the active profile's in memory, another's in
\* its document
ProfileRouting(st, d, n) ==
    IF n = st.profile THEN st.stream_to_axis
    ELSE get_profile(d, n, {}).profile.stream_to_axis

\* C19: renaming a command or a stream to a name that already exists is rejected:
\* the tab emits a DisplayError and no Rename event, and the command and stream
\* sets, the bindings and the routing, in memory and on disk, are unchanged.
C19_RenameToExistingRejected ==
    /\ (last.gesture = "rename command" /\ last.row[2] \in last.pre.commands) =>
          last.events = <<DisplayError("command of that name already exists")>>
    /\ (last.gesture = "rename stream" /\ last.row[2] \in last.pre.streams) =>
          last.events = <<DisplayError("stream of that name already exists")>>
    /\ (\/ last.gesture = "rename command" /\ last.row[2] \in last.pre.commands
        \/ last.gesture = "rename stream" /\ last.row[2] \in last.pre.streams) =>
          /\ state.commands = last.pre.commands
          /\ state.streams = last.pre.streams
          /\ state.bindings = last.pre.bindings
          /\ state.stream_to_axis = last.pre.stream_to_axis
          /\ disk = last.preDisk
          /\ Len(toasts) = 1
          /\ ~panicked

\* C19 witness: a command has been renamed to the name of another command
C19_Witness ==
    /\ last.gesture = "rename command"
    /\ last.row[1] # last.row[2]
    /\ last.row[2] \in last.pre.commands
    /\ toasts # <<>>

\* C20: the manage-streams tab emits RemoveStream(s) only when no profile routes s;
\* when some profile routes s, or a profile document it reads cannot be read, it
\* emits a DisplayError instead and the stream set is unchanged.
C20_RemoveStreamOnlyWhenUnrouted ==
    last.gesture = "remove stream" =>
        LET s == last.row[1]
            emitted == \E i \in 1..Len(last.events) : last.events[i].type = "RemoveStream"
            routed == \E n \in Range(last.pre.profiles) :
                         s \in DOMAIN ProfileRouting(last.pre, last.preDisk, n)
            unreadable == \E n \in Range(last.pre.profiles) :
                             /\ n # last.pre.profile
                             /\ n \in DOMAIN last.preDisk.bindings_dir
                             /\ ProfileFile(n) \in last.bad
        IN  /\ emitted => ~routed /\ last.events = <<RemoveStream(s)>>
            /\ (routed \/ unreadable) =>
                  /\ ~emitted
                  /\ last.events # <<>>
                  /\ \A i \in 1..Len(last.events) : last.events[i].type = "DisplayError"
                  /\ state.streams = last.pre.streams
                  /\ s \in state.streams

\* C20 witness: the X button was pressed on a stream that only an unreadable
\* document of another profile could route
C20_Witness ==
    /\ last.gesture = "remove stream"
    /\ last.row[1] \notin DOMAIN last.pre.stream_to_axis
    /\ \E n \in Range(last.pre.profiles) :
          /\ n # last.pre.profile
          /\ n \in DOMAIN last.preDisk.bindings_dir
          /\ ProfileFile(n) \in last.bad
    /\ Len(toasts) = 2
    /\ last.row[1] \in state.streams

(***************************************************************************)
(* Claims about the pure functions                                         *)
(***************************************************************************)
RECURSIVE NoDriverInDriver(_)
\* no Driver node of the constant has a Driver as its default
NoDriverInDriver(c) ==
    CASE c.tag = "Driver" -> c.default.tag # "Driver" /\ NoDriverInDriver(c.default)
      [] c.tag = "Object" -> \A k \in DOMAIN c.map : NoDriverInDriver(c.map[k])
      [] c.tag = "List" -> \A i \in DOMAIN c.items : NoDriverInDriver(c.items[i])
      [] OTHER -> TRUE

\* C11: default_for_type never returns for a type Driver(Driver(X)), and for every
\* other type expression it returns a constant in which no Driver node has a Driver
\* as its default.
C11_DefaultForType ==
    fnLast.op = "default_for_type" =>
        IF fnLast.t.t = "Driver" /\ fnLast.t.of.t = "Driver"
        THEN ~fnLast.returned /\ panicked
        ELSE fnLast.returned /\ ~panicked /\ NoDriverInDriver(fnLast.value)

\* C11 witness: the call on Driver(Driver(Int)) has aborted the process
C11_Witness ==
    /\ fnLast.op = "default_for_type"
    /\ fnLast.t = [t |-> "Driver", of |-> [t |-> "Driver", of |-> [t |-> "Int"]]]
    /\ panicked

\* C17: on a Generic controller with 5 buttons valid_binding accepts Button 1..5 and
\* rejects Button 0, Button 6 and every Analog index; on an XBox controller it accepts
\* Analog 2 and 3 and rejects every other Analog index.
C17_ValidBinding ==
    fnLast.op = "valid_binding" =>
        /\ (fnLast.c.type = "Generic" /\ fnLast.c.buttons = 5
                /\ fnLast.button.location = "Button")
              => (fnLast.result <=> fnLast.button.button \in 1 .. 5)
        /\ (fnLast.c.type = "Generic" /\ fnLast.c.buttons = 5
                /\ fnLast.button.location = "Analog")
              => ~fnLast.result
        /\ (fnLast.c.type = "XBox" /\ fnLast.button.location = "Analog")
              => (fnLast.result <=> fnLast.button.button \in {2, 3})

\* C17 witness: Button 5 has been accepted on the Generic controller with 5 buttons
C17_Witness ==
    /\ fnLast.op = "valid_binding"
    /\ fnLast.c = Generic(5, 2)
    /\ fnLast.button = [button |-> 5, location |-> "Button"]
    /\ fnLast.result

\* C18: a Pov binding is valid exactly when the controller is bound and the index is
\* one of the eight compass headings 0, 45, .., 315 or -1.
C18_PovValidity ==
    (fnLast.op = "valid_binding" /\ fnLast.button.location = "Pov") =>
        (fnLast.result <=>
            /\ fnLast.c.type # "NotBound"
            /\ fnLast.button.button \in {-1, 0, 45, 90, 135, 180, 225, 270, 315})

(***************************************************************************)
(* Claims about syncing                                                    *)
(***************************************************************************)
\* the handle held by whichever of State and the sync thread drives the sync
Held == IF thread.spawned THEN thread.command ELSE state.sync_process

Children == IF thread.spawned THEN thread.procs ELSE disk.procs

\* the children before the latest persist or the latest turn of the thread
ChildrenBefore == IF thread.spawned THEN thread.preLen ELSE Len(last.preDisk.procs)

HeldBefore == IF thread.spawned THEN thread.preCommand ELSE last.pre.sync_process

InFlight == { p \in DOMAIN Children : Children[p] = "running" }

\* C12: at most one sync subprocess is in flight; when a sync is started while a
\* handle is held, the previous child has been killed by the time the replacement
\* runs, and the handle held afterwards is the replacement's.
C12_OneSyncInFlight ==
    /\ Cardinality(InFlight) <= 1
    /\ InFlight \subseteq Range(Held)
    /\ (last.gesture # "none" \/ thread.spawned) =>
          (Len(Children) > ChildrenBefore =>
              /\ Len(Children) = ChildrenBefore + 1
              /\ Held = <<Len(Children)>>
              /\ HeldBefore # <<>> => Children[HeldBefore[1]] # "running")

\* C12 witness: write_out has replaced a child that was still running
C12_Witness ==
    /\ ~thread.spawned
    /\ last.gesture # "none"
    /\ last.pre.sync_process # <<>>
    /\ last.preDisk.procs[last.pre.sync_process[1]] = "running"
    /\ disk.procs[last.pre.sync_process[1]] = "killed"
    /\ state.sync_process = <<Len(disk.procs)>>
    /\ state.sync_process # last.pre.sync_process

\* C21: on a Driver leaf the active profile has not overridden, "change value"
\* (AddOptionDriver(path, default)) stores at the path of the override tree a
\* value equal to the leaf's global default; "reset" (RemoveOptionDriver(path))
\* deletes the override, so that the tab again shows the leaf as not overridden;
\* neither event changes the global constants tree.
C21_DriverOverrideRoundTrip ==
    (last.gesture \in {"change value", "reset"}) =>
        LET key == last.events[1].key IN
        /\ ~panicked
        /\ toasts = <<>>
        /\ state.constants = last.pre.constants
        /\ last.gesture = "change value" =>
              /\ ~has_entry(last.rendered.driver_constants, key)
              /\ Lookup(state.driver_constants, key) = entry_at(last.pre.constants, key).default
        /\ last.gesture = "reset" =>
              /\ Lookup(state.driver_constants, key) = Missing
              /\ ~has_entry(driver_render(state.constants, state.driver_constants,
                                          Front(key)).driver, key)

\* a reset that follows a change of the same leaf: the override it deletes is the
\* global default the change had stored
C21_ResetAfterChange ==
    /\ last.gesture = "reset"
    /\ ticks = 2
    /\ has_entry(last.pre.driver_constants, last.events[1].key)
    /\ Lookup(last.pre.driver_constants, last.events[1].key)
           = entry_at(state.constants, last.events[1].key).default
    /\ Lookup(state.driver_constants, last.events[1].key) = Missing

\* C24: remove_binding(command, binding) panics exactly when the command has no
\* entry in command_to_bindings or (controller, button) has no entry in
\* binding_to_commands; otherwise the pair is afterwards in neither index.
C24_RemoveBinding ==
    (bmLast.op = "remove_binding") =>
        /\ panicked <=> \/ bmLast.command \notin DOMAIN bmLast.pre.command_to_bindings
                        \/ PButtonOf(bmLast.binding) \notin DOMAIN bmLast.pre.binding_to_commands
        /\ ~panicked =>
              /\ ~has_binding(bm, bmLast.command, bmLast.binding)
              /\ ~Contains(bm.binding_to_commands[PButtonOf(bmLast.binding)],
                           <<bmLast.command, bmLast.binding.during>>)

\* a removal of a pair both indices held
C24_RemovedExistingPair ==
    /\ bmLast.op = "remove_binding"
    /\ ~panicked
    /\ has_binding(bmLast.pre, bmLast.command, bmLast.binding)
    /\ Contains(bmLast.pre.binding_to_commands[PButtonOf(bmLast.binding)],
                <<bmLast.command, bmLast.binding.during>>)
    /\ ~has_binding(bm, bmLast.command, bmLast.binding)

\* C26: on a NotBound controller button_name returns the error label for every
\* button, whatever its location and index, and axis_name returns the error label
\* for every axis.
C26_UnboundNamesAreErrors ==
    (fnLast.op \in {"button_name", "axis_name"} /\ fnLast.c = NotBound) =>
        /\ ~panicked
        /\ fnLast.name = "ERROR"

NumAst(m, e) == [tag |-> "Num", v |-> [m |-> m, e |-> e]]

BinAst(tag, l, r) == [tag |-> tag, l |-> l, r |-> r]

\* the f64 a numeral of the texts denotes
NumeralAst(n) ==
    CASE n = <<"1">> -> NumAst(1, 0)
      [] n = <<"2">> -> NumAst(2, 0)
      [] n = <<"3">> -> NumAst(3, 0)
      [] n = <<"5">> -> NumAst(5, 0)
      [] n = <<"2", ".", "1">> -> NumAst(21, 1)

OpAst(o, l, r) ==
    BinAst(CASE o = "*" -> "Mult" [] o = "/" -> "Div" [] o = "+" -> "Add" [] o = "-" -> "Sub",
           l, r)

\* the tree of `a o1 b o2 c`: the parentheses decide where there are some;
\* otherwise * and / bind tighter than + and -, and equals group to the left
ExpectedAst(f) ==
    LET a == NumeralAst(f.a)
        b == NumeralAst(f.b)
        c == NumeralAst(f.c)
        tighter == f.o2 \in {"*", "/"} /\ f.o1 \in {"+", "-"}
    IN  IF f.form = "right" \/ (f.form = "flat" /\ tighter)
        THEN OpAst(f.o1, a, OpAst(f.o2, b, c))
        ELSE OpAst(f.o2, OpAst(f.o1, a, b), c)

Unpadded(text) == SelectSeq(text, LAMBDA ch : ch # " ")

\* C27: the expression parser gives * and / higher precedence than + and -,
\* groups operators of equal precedence left to right, lets parentheses
\* override both and ignores whitespace; 2*3+1 is Add(Mult(2,3),1), 2/3*2 is
\* Mult(Div(2,3),2), 2+3-2 is Sub(Add(2,3),2) and 2.1*(3+5) is
\* Mult(2.1, Add(3,5)), padded or not.
C27_ParserPrecedence ==
    (fnLast.op = "parse") =>
        /\ fnLast.parsed.ok
        /\ fnLast.parsed.ast = ExpectedAst(fnLast)
        /\ Unpadded(fnLast.text) = <<"2", "*", "3", "+", "1">> =>
              fnLast.parsed.ast = BinAst("Add", BinAst("Mult", NumAst(2, 0), NumAst(3, 0)),
                                         NumAst(1, 0))
        /\ Unpadded(fnLast.text) = <<"2", "/", "3", "*", "2">> =>
              fnLast.parsed.ast = BinAst("Mult", BinAst("Div", NumAst(2, 0), NumAst(3, 0)),
                                         NumAst(2, 0))
        /\ Unpadded(fnLast.text) = <<"2", "+", "3", "-", "2">> =>
              fnLast.parsed.ast = BinAst("Sub", BinAst("Add", NumAst(2, 0), NumAst(3, 0)),
                                         NumAst(2, 0))
        /\ Unpadded(fnLast.text) = <<"2", ".", "1", "*", "(", "3", "+", "5", ")">> =>
              fnLast.parsed.ast = BinAst("Mult", NumAst(21, 1),
                                         BinAst("Add", NumAst(3, 0), NumAst(5, 0)))

\* the padded text of the whitespace test has been parsed
C27_PaddedParens ==
    /\ fnLast.op = "parse"
    /\ fnLast.text = <<" ", " ", "2", ".", "1", "*", "(", "3", "+", "5", ")", " ", " ">>
    /\ fnLast.parsed.ok
    /\ fnLast.parsed.ast.tag = "Mult"

\* C25: from_directory returns an error and creates no State when the chosen
\* path is not a directory or a directory stands at the deploy directory's
\* profile or bindings.json path; when bindings.json is absent it returns the
\* all-default State whose profile list holds exactly the active profile name;
\* and a missing marker file is created with the content "default".
C25_OpenProject ==
    (fnLast.op = "from_directory") =>
        LET pre == fnLast.pre
            name == IF pre.profile = Absent THEN "default" ELSE Content(pre.profile)
        IN  /\ (~fnLast.is_dir \/ pre.profile = Dir \/ pre.bindings_json = Dir) =>
                  fnLast.err # "" /\ state = StateDefault
            /\ (fnLast.is_dir /\ pre.profile # Dir /\ pre.bindings_json = Absent) =>
                  /\ fnLast.err = ""
                  /\ state = [StateDefault EXCEPT !.profile = name, !.profiles = <<name>>]
            /\ (fnLast.is_dir /\ pre.profile = Absent) => disk.profile = File("default")

\* a directory without marker and without bindings.json, but with profile
\* documents, has been opened
C25_OpenedFresh ==
    /\ fnLast.op = "from_directory"
    /\ fnLast.is_dir
    /\ fnLast.pre.profile = Absent
    /\ fnLast.pre.bindings_json = Absent
    /\ DOMAIN fnLast.pre.bindings_dir = ProfileNames
    /\ state.profiles = <<"default">>
    /\ disk.profile = File("default")

\* the profiles the fan-out of map_profiles visits, in its order
Others == SelectSeq(last.pre.profiles, LAMBDA n : n # last.pre.profile)

\* the profile whose document could not be read or rewritten in the latest tick
FailedProfile == CHOOSE n \in ProfileNames : last.bad = {ProfileFile(n)}

\* the profiles visited before the first visit of the failed one
VisitedBefore ==
    { Others[j] : j \in { j \in 1..Len(Others) :
                            \A i \in 1..j : Others[i] # FailedProfile } }

\* profile n's document holds the outcome of event e on what it held before
Rewritten(e, n) ==
    /\ n \in DOMAIN disk.bindings_dir
    /\ IF e.type = "RenameCommand"
       THEN LET before == get_profile(last.preDisk, n, {}).profile.command_to_bindings
                after == DocOf(disk, n).command_to_bindings
            IN  /\ e.old # e.new => e.old \notin DOMAIN after
                /\ e.old \in DOMAIN before =>
                      e.new \in DOMAIN after /\ after[e.new] = before[e.old]
       ELSE Lookup(DocOf(disk, n).constants, e.key) = Missing

\* C22: when reading or rewriting the document of one inactive profile fails
\* during the fan-out of RenameCommand or RemoveOption, the documents visited
\* before it have been rewritten, its own and those after it are as they
\* were, and the first error is shown as one notice.
C22_FanOutStopsAtFirstError ==
    (/\ last.gesture \in {"rename command", "remove option"}
     /\ last.events[1].type \in {"RenameCommand", "RemoveOption"}
     /\ \E n \in Range(Others) : last.bad = {ProfileFile(n)}) =>
        /\ ~panicked
        /\ Len(toasts) = 1
        /\ toasts[1] \in {"failed to get profile", "failed to create file to savce to"}
        /\ \A n \in VisitedBefore : Rewritten(last.events[1], n)
        /\ \A n \in Range(Others) \ VisitedBefore :
              /\ n \in DOMAIN disk.bindings_dir <=> n \in DOMAIN last.preDisk.bindings_dir
              /\ n \in DOMAIN disk.bindings_dir =>
                    disk.bindings_dir[n] = last.preDisk.bindings_dir[n]

\* a rename whose fan-out rewrote comp's document and then failed on default's
C22_SecondDocumentFails ==
    /\ last.gesture = "rename command"
    /\ last.events = <<RenameCommand("shoot", "fire")>>
    /\ last.pre.profile = "practice"
    /\ last.bad = {ProfileFile("default")}
    /\ toasts # <<>>
    /\ "shoot" \in DOMAIN DocOf(last.preDisk, "comp").command_to_bindings
    /\ "fire" \in DOMAIN DocOf(disk, "comp").command_to_bindings
    /\ "shoot" \in DOMAIN DocOf(disk, "default").command_to_bindings

\* C31: in every state reached by handle_event from an opened project, also
\* through SetProfile and through RenameCommand onto a name that already has
\* bindings, command c has binding b in State.bindings.command_to_bindings iff
\* binding_to_commands[(b.controller, b.button)] contains (c, b.during).
C31_StateMirror == Mirror(state.bindings)

\* RenameCommand("fire", "shoot") has been handled while both names had
\* bindings, and different ones
C31_RenamedOntoBound ==
    /\ last.gesture = "events"
    /\ last.events = <<RenameCommand("fire", "shoot")>>
    /\ ~panicked
    /\ toasts = <<>>
    /\ bm_is_used(last.pre.bindings, "shoot")
    /\ bm_is_used(last.pre.bindings, "fire")
    /\ last.pre.bindings.command_to_bindings["shoot"]
          # last.pre.bindings.command_to_bindings["fire"]
    /\ state.bindings.command_to_bindings["shoot"]
          = last.pre.bindings.command_to_bindings["fire"]

\* C32: has_button((controller, button)) is true iff some command has a binding
\* on that button; after remove_binding or remove_command has removed the last
\* binding on a button, has_button is false for it.
C32_HasButtonIffBound ==
    \A b \in Bindings :
        has_button(bm, PButtonOf(b))
            <=> \E c \in CommandNames, b2 \in Bindings :
                    PButtonOf(b2) = PButtonOf(b) /\ has_binding(bm, c, b2)

\* C33: State::is_used(c) is true iff some profile has at least one binding for
\* c (so it is false once RemoveBinding has removed every binding of c in every
\* profile), and where only the active profile is concerned it agrees with
\* BindingsMap::is_used(c).
C33_IsUsedIffBound ==
    \A c \in CommandNames :
        /\ state_is_used(state, disk, c, {}).used
              <=> \E n \in Range(state.profiles) \cup {state.profile} : BoundIn(state, disk, n, c)
        /\ (\A n \in Range(state.profiles) \ {state.profile} : ~BoundIn(state, disk, n, c))
              => state_is_used(state, disk, c, {}).used = bm_is_used(state.bindings, c)

\* C34: every stream name that is a key of stream_to_axis in any profile, the
\* active one in memory or a profile document on disk, is a member of the global
\* stream set; RenameStream(from, to) leaves no profile routing the old name.
C34_RoutedStreamsAreDeclared ==
    \A n \in Range(state.profiles) \cup DOMAIN disk.bindings_dir \cup {state.profile} :
        DOMAIN ProfileRouting(state, disk, n) \subseteq state.streams

\* the events of the latest tick are edits of the active profile only
ProfileEdits ==
    /\ last.gesture = "events"
    /\ \A i \in 1..Len(last.events) :
          last.events[i].type \in {"AddBinding", "RemoveBinding", "SetStream",
                                   "AddOptionDriver", "RemoveOptionDriver"}

\* C35: AddBinding, RemoveBinding, SetStream, AddOptionDriver and
\* RemoveOptionDriver, with the persist they request, rewrite only bindings.json
\* and bindings/<active>.json: the marker file and the document of every other
\* profile are as they were, and no other document appears.
C35_EditsTouchActiveOnly ==
    ProfileEdits =>
        /\ state.profile = last.pre.profile
        /\ disk.profile = last.preDisk.profile
        /\ DOMAIN disk.bindings_dir \subseteq DOMAIN last.preDisk.bindings_dir \cup {state.profile}
        /\ \A n \in DOMAIN last.preDisk.bindings_dir \ {state.profile} :
              /\ n \in DOMAIN disk.bindings_dir
              /\ disk.bindings_dir[n] = last.preDisk.bindings_dir[n]

\* an AddBinding was persisted into the active profile's document next to the
\* document of another profile
C35_EditedBesideOtherProfile ==
    /\ ProfileEdits
    /\ last.events[1].type = "AddBinding"
    /\ ~panicked
    /\ state.profile = "default"
    /\ state.profile \in DOMAIN last.preDisk.bindings_dir
    /\ disk.bindings_dir[state.profile] # last.preDisk.bindings_dir[state.profile]
    /\ disk.bindings_json # Absent
    /\ "comp" \in DOMAIN disk.bindings_dir

\* the latest tick, event by event: the handler of each event of the queue applied
\* to what the handler before it left (queues of one or two events)
FirstHandled == handle_event(last.rendered, last.preDisk, last.events[1], last.bad)

SecondHandled ==
    handle_event(FirstHandled.state, FirstHandled.disk, last.events[2], last.bad)

LastHandled == IF Len(last.events) = 1 THEN FirstHandled ELSE SecondHandled

HandledRets ==
    IF Len(last.events) = 1 THEN <<FirstHandled.ret>>
    ELSE <<FirstHandled.ret, SecondHandled.ret>>

\* C36: in a tick whose handlers all return, every collected event is applied
\* exactly once, in emission order, whatever the flags of the events before it;
\* write_out runs after all of them, if and only if at least one returned true.
C36_EveryEventThenOnePersist ==
    (last.gesture # "none" /\ ~panicked /\ last.events # <<>>) =>
        /\ last.rets = HandledRets
        /\ IF \E i \in 1..Len(HandledRets) : HandledRets[i]
           THEN /\ state = write_out(LastHandled.state, LastHandled.disk, last.bad).state
                /\ disk = write_out(LastHandled.state, LastHandled.disk, last.bad).disk
                /\ last.err = write_out(LastHandled.state, LastHandled.disk, last.bad).err
           ELSE /\ state = LastHandled.state
                /\ disk = LastHandled.disk
                /\ last.err = ""

\* a tick of two events, the first asking for the persist and the second not,
\* where the second changed State and the persist wrote it
C36_FlaggedThenUnflagged ==
    /\ last.gesture = "events"
    /\ last.rets = <<TRUE, FALSE>>
    /\ last.events[2].type = "SetProfile"
    /\ state.profile # last.pre.profile
    /\ disk.bindings_json # last.preDisk.bindings_json

\* C37: for every bound controller, every button enumerate_buttons produces
\* satisfies valid_binding.
C37_EnumeratedButtonsAreValid ==
    (fnLast.op = "enumerate_buttons" /\ fnLast.c.type # "NotBound") =>
        \A i \in 1..Len(fnLast.buttons) : valid_binding(fnLast.c, fnLast.buttons[i])

\* C38: a tick that ends with syncing disabled or no url neither spawns a child
\* nor kills or replaces the held one, and its persist still writes both local
\* documents; a child is spawned only by a persisting tick with a url set and
\* syncing enabled.
C38_SyncOnlyWhenEnabled ==
    [][ /\ (ticks' # ticks /\ (state'.url = <<>> \/ ~state'.syncing)) =>
              /\ disk'.procs = disk.procs
              /\ state'.sync_process = state.sync_process
              /\ (last'.err = "" /\ \E i \in 1..Len(last'.rets) : last'.rets[i]) =>
                    /\ disk'.bindings_json = File(SaveDataToDoc(to_savedata(state')))
                    /\ state'.profile \in DOMAIN disk'.bindings_dir
                    /\ disk'.bindings_dir[state'.profile] = ProfileToDoc(to_profile_data(state'))
        /\ Len(disk'.procs) > Len(disk.procs) =>
              /\ ticks' # ticks
              /\ state'.url # <<>>
              /\ state'.syncing
              /\ \E i \in 1..Len(last'.rets) : last'.rets[i] ]_vars

\* a persist with syncing disabled wrote the documents while a child of an
\* earlier persist was still running, and left that child alone
C38_PersistBesideRunningChild ==
    /\ last.gesture = "add command"
    /\ last.rets = <<TRUE>>
    /\ last.err = ""
    /\ state.url # <<>>
    /\ ~state.syncing
    /\ state.sync_process # <<>>
    /\ disk.procs[state.sync_process[1]] = "running"
    /\ disk.bindings_json = File(SaveDataToDoc(to_savedata(state)))

C23_RemoveOptionNeverAborts ==
    treeLast.op = "RemoveOption" => ~panicked

\* C13: whenever the observation of the in-flight child reports a failure (an
\* unsuccessful exit status, or an error obtaining the status), an error is sent
\* and the held handle is cleared, so that a later sync spawns afresh.
C13_FailureClearsHandle ==
    (thread.spawned /\ thread.seen \in {"exit failure", "status error"}) =>
        /\ Len(thread.errors) = thread.preErrors + 1
        /\ thread.command = <<>>

====
